---- MODULE Spec2Model ----
(***************************************************************************)
(* rtcheck: static deadlock detection by a path-sensitive lockset walk.    *)
(* The model follows rtcheck/main.go (LockSet, StackFrame, PathStateSet,   *)
(* PathStateMap, walkFunction, walkBlock, main) and rtcheck/live.go        *)
(* (livenessFor).  The parts of the analyzer that are not among the source *)
(* files (ValState, the call handlers, LockOrder) follow the design text.  *)
(***************************************************************************)
EXTENDS Integers, Sequences, FiniteSets, TLC

\* ------------------------------------------------------------------ bounds
\* Number of initial roots handed to the analysis.
MaxRoots == 2
\* Depth of the analyzer's own call stack (walkFunction / walkBlock / doCall
\* activations) at which the Go runtime's stack limit is taken to be hit.
MaxDepth == 16

\* "similar > 10" in walkBlock.
MaxSimilar == 10

\* ------------------------------------------------------ the analyzed input
\* An SSA instruction.  op: call | go | if | ret | jump | not | phi.
\*   call/go: arg = first argument value; builtin = the name of the built-in
\*            called ("" if none); otherwise fns = the static callee if it is
\*            one function, else the callees of the out-edges of this site in
\*            the call graph node of the enclosing function
\*   if:      arg = condition value
\*   not:     val = !arg          phi: edges[i] = value from Preds[i]
\* val names the value the instruction defines ("" if none).
Instr(op, arg, callees, val, edges) ==
    [op |-> op, arg |-> arg, fns |-> callees, val |-> val, edges |-> edges, builtin |-> ""]
LockI(a)    == Instr("call", a, <<"lock">>, "", <<>>)
UnlockI(a)  == Instr("call", a, <<"unlock">>, "", <<>>)
CallI(fs)   == Instr("call", "", fs, "", <<>>)
CallV(fs, v) == Instr("call", "", fs, v, <<>>)
GoI(fs)     == Instr("go", "", fs, "", <<>>)
BuiltinI(name) == [Instr("call", "", <<>>, "", <<>>) EXCEPT !.builtin = name]
IfI(c)      == Instr("if", c, <<>>, "", <<>>)
RetI        == Instr("ret", "", <<>>, "", <<>>)
JumpI       == Instr("jump", "", <<>>, "", <<>>)
NotI(v, x)  == Instr("not", x, <<>>, v, <<>>)
PhiI(v, es) == Instr("phi", "", <<>>, v, es)

Block(instrs, succs) == [instrs |-> instrs, succs |-> succs]

\* The functions of the analyzed program: function name -> blocks (Blocks[0]
\* is block 1 here).  A function with no blocks is external.
Code ==
    [ f   |-> << << <<<<"lock", "a">>, <<"lock", "b">>, <<"unlock", "b">>, <<"unlock", "a">>, <<"ret">>>>, <<>> >> >>,
      g   |-> << << <<<<"lock", "b">>, <<"lock", "a">>, <<"unlock", "a">>, <<"unlock", "b">>, <<"ret">>>>, <<>> >> >>,
      h   |-> << << <<<<"lock", "x">>, <<"lock", "y">>, <<"ret">>>>, <<>> >> >>,
      u   |-> << << <<<<"lock", "a">>, <<"ret">>>>, <<>> >> >>,
      br  |-> << << <<<<"if", "true">>>>, <<2, 3>> >>,
                 << <<<<"lock", "a">>, <<"jump">>>>, <<4>> >>,
                 << <<<<"lock", "b">>, <<"jump">>>>, <<4>> >>,
                 << <<<<"lock", "c">>, <<"unlock", "c">>, <<"unlock", "a">>, <<"unlock", "b">>, <<"ret">>>>, <<>> >> >>,
      bf  |-> << << <<<<"if", "false">>>>, <<2, 3>> >>,
                 << <<<<"lock", "a">>, <<"jump">>>>, <<4>> >>,
                 << <<<<"lock", "b">>, <<"jump">>>>, <<4>> >>,
                 << <<<<"lock", "c">>, <<"unlock", "c">>, <<"unlock", "a">>, <<"unlock", "b">>, <<"ret">>>>, <<>> >> >>,
      bu  |-> << << <<<<"callv", "v", "ext">>, <<"if", "v">>>>, <<2, 3>> >>,
                 << <<<<"lock", "a">>, <<"jump">>>>, <<4>> >>,
                 << <<<<"lock", "b">>, <<"jump">>>>, <<4>> >>,
                 << <<<<"lock", "c">>, <<"unlock", "c">>, <<"unlock", "a">>, <<"unlock", "b">>, <<"ret">>>>, <<>> >> >>,
      r   |-> << << <<<<"lock", "b">>, <<"go", "w">>, <<"unlock", "b">>, <<"ret">>>>, <<>> >> >>,
      w   |-> << << <<<<"lock", "a">>, <<"lock", "c">>, <<"unlock", "c">>, <<"unlock", "a">>, <<"ret">>>>, <<>> >> >>,
      m   |-> << << <<<<"lock", "c">>, <<"lock", "ab">>, <<"unlock", "ab">>, <<"unlock", "c">>, <<"ret">>>>, <<>> >> >>,
      two |-> << << <<<<"callv", "t", "ext">>, <<"if", "t">>>>, <<2, 3>> >>,
                 << <<<<"lock", "a">>, <<"jump">>>>, <<3>> >>,
                 << <<<<"ret">>>>, <<>> >> >>,
      ct  |-> << << <<<<"call", "two">>, <<"lock", "c">>, <<"unlock", "c">>, <<"unlock", "a">>, <<"ret">>>>, <<>> >> >>,
      d   |-> << << <<<<"lock", "c">>, <<"call", "f">>, <<"unlock", "c">>, <<"ret">>>>, <<>> >> >>,
      rec |-> << << <<<<"unlock", "a">>, <<"lock", "a">>, <<"call", "rec">>, <<"ret">>>>, <<>> >> >>,
      rc  |-> << << <<<<"callv", "q", "ext">>, <<"if", "q">>>>, <<2, 3>> >>,
                 << <<<<"call", "rc">>, <<"lock", "a">>, <<"jump">>>>, <<3>> >>,
                 << <<<<"ret">>>>, <<>> >> >>,
      pj  |-> << << <<<<"if", "p">>>>, <<2, 3>> >>,
                 << <<<<"jump">>>>, <<4>> >>,
                 << <<<<"jump">>>>, <<4>> >>,
                 << <<<<"lock", "a">>, <<"if", "p">>>>, <<6, 5>> >>,
                 << <<<<"lock", "b">>, <<"unlock", "b">>, <<"jump">>>>, <<6>> >>,
                 << <<<<"unlock", "a">>, <<"ret">>>>, <<>> >> >>,
      e   |-> << << <<<<"lock", "a">>, <<"lock", "n">>, <<"unlock", "n">>, <<"unlock", "a">>, <<"ret">>>>, <<>> >> >>,
      tb  |-> << << <<<<"callv", "s", "ext">>, <<"if", "s">>>>, <<2, 3>> >>,
                 << <<<<"lock", "b">>, <<"jump">>>>, <<3>> >>,
                 << <<<<"ret">>>>, <<>> >> >>,
      od  |-> << << <<<<"call", "tb">>, <<"if", "p">>>>, <<2, 3>> >>,
                 << <<<<"jump">>>>, <<4>> >>,
                 << <<<<"unlock", "b">>, <<"jump">>>>, <<4>> >>,
                 << <<<<"lock", "a">>, <<"if", "p">>>>, <<6, 5>> >>,
                 << <<<<"lock", "c">>, <<"unlock", "c">>, <<"jump">>>>, <<6>> >>,
                 << <<<<"unlock", "a">>, <<"unlock", "b">>, <<"ret">>>>, <<>> >> >>,
      cc  |-> << << <<<<"call", "two">>, <<"unlock", "a">>, <<"call", "two">>, <<"unlock", "a">>, <<"ret">>>>, <<>> >> >>,
      l1  |-> << << <<<<"lock", "t">>, <<"ret">>>>, <<>> >> >>,
      l2  |-> << << <<<<"lock", "t">>, <<"ret">>>>, <<>> >> >>,
      l3  |-> << << <<<<"lock", "t">>, <<"ret">>>>, <<>> >> >>,
      l4  |-> << << <<<<"lock", "t">>, <<"ret">>>>, <<>> >> >>,
      l5  |-> << << <<<<"lock", "t">>, <<"ret">>>>, <<>> >> >>,
      l6  |-> << << <<<<"lock", "t">>, <<"ret">>>>, <<>> >> >>,
      l7  |-> << << <<<<"lock", "t">>, <<"ret">>>>, <<>> >> >>,
      l8  |-> << << <<<<"lock", "t">>, <<"ret">>>>, <<>> >> >>,
      l9  |-> << << <<<<"lock", "t">>, <<"ret">>>>, <<>> >> >>,
      l10 |-> << << <<<<"lock", "t">>, <<"ret">>>>, <<>> >> >>,
      l11 |-> << << <<<<"lock", "t">>, <<"ret">>>>, <<>> >> >>,
      l12 |-> << << <<<<"lock", "t">>, <<"ret">>>>, <<>> >> >>,
      tm  |-> << << <<<<"call", "l1", "l2", "l3", "l4", "l5", "l6", "l7", "l8", "l9", "l10", "l11", "l12">>,
                       <<"jump">>>>, <<2>> >>,
                 << <<<<"ret">>>>, <<>> >> >>,
      lp  |-> << << <<<<"callv", "w", "ext">>, <<"lock", "a">>, <<"jump">>>>, <<2>> >>,
                 << <<<<"callv", "v", "ext">>, <<"if", "v">>>>, <<2, 3>> >>,
                 << <<<<"unlock", "a">>, <<"ret">>>>, <<>> >> >>,
      cb  |-> << << <<<<"if", "p">>>>, <<2, 3>> >>,
                 << <<<<"call", "two">>, <<"unlock", "a">>, <<"jump">>>>, <<3>> >>,
                 << <<<<"ret">>>>, <<>> >> >>,
      traceReleaseBuffer |-> << << <<<<"call", "l1", "l2">>, <<"ret">>>>, <<>> >> >>,
      nc  |-> << << <<<<"lock", "a">>, <<"builtin", "print">>, <<"call", "u", "w">>,
                       <<"builtin", "append">>, <<"unlock", "a">>, <<"ret">>>>, <<>> >> >>,
      lv  |-> << << <<<<"callv", "x", "ext">>, <<"if", "p">>>>, <<2, 3>> >>,
                 << <<<<"jump">>>>, <<4>> >>,
                 << <<<<"jump">>>>, <<4>> >>,
                 << <<<<"phi", "z", "x", "true">>, <<"not", "n", "x">>, <<"if", "z">>>>, <<5, 6>> >>,
                 << <<<<"if", "n">>>>, <<6, 7>> >>,
                 << <<<<"lock", "a">>, <<"unlock", "a">>, <<"jump">>>>, <<7>> >>,
                 << <<<<"ret">>>>, <<>> >> >>,
      lo  |-> << << <<<<"callv", "x", "ext">>, <<"callv", "y", "ext">>, <<"jump">>>>, <<2>> >>,
                 << <<<<"jump">>>>, <<3>> >>,
                 << <<<<"phi", "z", "y", "x">>, <<"if", "z">>>>, <<3, 4>> >>,
                 << <<<<"ret">>>>, <<>> >> >>,
      sw  |-> << << <<<<"jump">>>>, <<2>> >>,
                 << <<<<"phi", "a", "true", "b">>, <<"phi", "b", "false", "a">>,
                       <<"phi", "s", "true", "u">>, <<"callv", "u", "ext">>,
                       <<"callv", "c", "ext">>, <<"if", "c">>>>, <<2, 3>> >>,
                 << <<<<"ret">>>>, <<>> >> >>,
      growslice |-> << >>,
      ext |-> << >> ]

\* An instruction of the text: the operation, then what it names (for callv
\* the value defined, then the callees; for not the value defined, then the
\* operand; for phi the value defined, then the edges).
Decode(t) ==
    CASE t[1] = "lock"   -> LockI(t[2])
      [] t[1] = "unlock" -> UnlockI(t[2])
      [] t[1] = "call"   -> CallI(Tail(t))
      [] t[1] = "callv"  -> CallV(SubSeq(t, 3, Len(t)), t[2])
      [] t[1] = "go"     -> GoI(Tail(t))
      [] t[1] = "builtin" -> BuiltinI(t[2])
      [] t[1] = "if"     -> IfI(t[2])
      [] t[1] = "ret"    -> RetI
      [] t[1] = "jump"   -> JumpI
      [] t[1] = "not"    -> NotI(t[2], t[3])
      [] t[1] = "phi"    -> PhiI(t[2], SubSeq(t, 3, Len(t)))

DecodeAll(code) ==
    [f \in DOMAIN code |->
        [b \in 1..Len(code[f]) |->
            Block([i \in 1..Len(code[f][b][1]) |-> Decode(code[f][b][1][i])],
                  code[f][b][2])]]
Prog == DecodeAll(Code)

Funcs == DOMAIN Prog

\* The functions that have a node in the call graph (s.cg.Nodes).
CgNodes == Funcs \ {"nc"}

\* A faulty callees: the out-edges of the site are taken without looking for
\* the node.
CalleesAnyway(f, instr) == instr.fns

\* callees(call): the runtime function of a built-in that has one, the static
\* callee, or the callees the call graph gives for the site; none for other
\* built-ins and when the enclosing function f has no node.
Callees(f, instr) ==
    IF instr.builtin # ""
    THEN CASE instr.builtin = "append" -> <<"growslice">>
           [] instr.builtin = "close" -> <<"closechan">>
           [] instr.builtin = "copy" -> <<"slicecopy">>
           [] instr.builtin = "copy string" -> <<"slicestringcopy">>
           [] instr.builtin = "delete" -> <<"mapdelete">>
           [] OTHER -> <<>>
    ELSE IF Len(instr.fns) = 1 THEN instr.fns
    ELSE IF f \in CgNodes THEN instr.fns
    ELSE <<>>
\* callees(call) prints 'no call graph for'.
NoCallGraph(f, instr) ==
    /\ instr.op \in {"call", "go"}
    /\ instr.builtin = "" /\ Len(instr.fns) # 1 /\ f \notin CgNodes

\* The functions main may be given as initial roots.
RootCandidates ==
    {"f", "g", "h", "u", "br", "bf", "bu", "r", "d", "m", "ct", "rec", "rc", "pj", "e", "od"}

\* The functions main is given as its only initial root.
SoloCandidates == {"cc", "tm", "lp", "cb", "nc", "lv", "lo", "sw", "traceReleaseBuffer"}

\* The points-to oracle: the labels of each value registered as a query.
Pts ==
    [ a |-> <<"A">>, b |-> <<"B">>, c |-> <<"C">>, x |-> <<"L">>, y |-> <<"L">>,
      ab |-> <<"A", "B">>, n |-> <<>>, t |-> <<"runtime.trace.bufLock">> ]

\* ssa.Const values.
Consts == {"true", "false"}

NBlocks(f) == Len(Prog[f])
InstrAt(f, b, i) == Prog[f][b].instrs[i]

\* b.Preds, in block order.
RECURSIVE PredsFrom(_, _, _)
PredsFrom(f, b, p) ==
    IF p > NBlocks(f) THEN <<>>
    ELSE (IF \E k \in 1..Len(Prog[f][p].succs) : Prog[f][p].succs[k] = b
          THEN <<p>> ELSE <<>>) \o PredsFrom(f, b, p + 1)
Preds(f, b) == PredsFrom(f, b, 1)

Range(s) == {s[i] : i \in 1..Len(s)}

\* --------------------------------------------------------------- StringSpace
\* sp is the slice sp.s; the id of a string is its index in it (from 0).
HasStr(sp, str) == \E i \in 1..Len(sp) : sp[i] = str
InternSp(sp, str) == IF HasStr(sp, str) THEN sp ELSE Append(sp, str)
Intern(sp, str) ==
    IF HasStr(sp, str) THEN (CHOOSE i \in 1..Len(sp) : sp[i] = str) - 1
    ELSE Len(sp)

\* The same on the two fields of *StringSpace: the map m and the slice s.
\* It yields the fields after the call and the id returned.
\* A faulty Intern: the id is taken after the append.
MapInternLate(m, s, str) ==
    IF str \in DOMAIN m THEN [m |-> m, s |-> s, id |-> m[str]]
    ELSE [m |-> [x \in DOMAIN m \cup {str} |-> IF x = str THEN Len(s) + 1 ELSE m[x]],
          s |-> Append(s, str), id |-> Len(s) + 1]
MapIntern(m, s, str) ==
    IF str \in DOMAIN m THEN [m |-> m, s |-> s, id |-> m[str]]
    ELSE LET id == Len(s)
         IN  [m |-> [x \in DOMAIN m \cup {str} |-> IF x = str THEN id ELSE m[x]],
              s |-> Append(s, str), id |-> id]

RECURSIVE InternAll(_, _, _)
InternAll(sp, labels, i) ==
    IF i > Len(labels) THEN sp
    ELSE InternAll(InternSp(sp, labels[i]), labels, i + 1)

\* ---------------------------------------------------------------- StackFrame
\* A stack is the sequence of its call sites, outermost first (Flatten); the
\* nil *StackFrame is <<>>.  A call site is <<function, block, index>>.
\* A faulty Extend: the call is not recorded.
ExtendNone(sf, call) == sf
Extend(sf, call) == Append(sf, call)
Parent(sf) == SubSeq(sf, 1, Len(sf) - 1)

\* The same on *StackFrame: h is the heap, a sequence of StackFrame objects
\* [parent, call]; a pointer is an index of h and nil is 0.  m is the map
\* internedStackFrames, from the struct value <<parent, call>> to a pointer.
Nil == 0
FrameKey(fr) == <<fr.parent, fr.call>>
RECURSIVE HeapFlatten(_, _)
HeapFlatten(h, sf) ==
    IF sf = Nil THEN <<>> ELSE Append(HeapFlatten(h, h[sf].parent), h[sf].call)
HeapExtend(h, sf, call) ==
    [objs |-> Append(h, [parent |-> sf, call |-> call]), out |-> Len(h) + 1]
MapPut(m, key, v) == [k \in DOMAIN m \cup {key} |-> IF k = key THEN v ELSE m[k]]
Interned(h, m, out) == [objs |-> h, interned |-> m, out |-> out]

\* A faulty Intern: the parent is taken as it is.
HeapInternShallow(h, m, sf) ==
    IF sf = Nil THEN Interned(h, m, Nil)
    ELSE IF FrameKey(h[sf]) \in DOMAIN m THEN Interned(h, m, m[FrameKey(h[sf])])
    ELSE LET e == HeapExtend(h, h[sf].parent, h[sf].call)
         IN  Interned(e.objs, MapPut(m, FrameKey(e.objs[e.out]), e.out), e.out)

RECURSIVE HeapIntern(_, _, _)
HeapIntern(h, m, sf) ==
    IF sf = Nil THEN Interned(h, m, Nil)
    ELSE IF FrameKey(h[sf]) \in DOMAIN m THEN Interned(h, m, m[FrameKey(h[sf])])
    ELSE LET p == HeapIntern(h, m, h[sf].parent)
             e == HeapExtend(p.objs, p.out, h[sf].call)
             key == FrameKey(e.objs[e.out])
         IN  IF key \in DOMAIN p.interned
             THEN Interned(e.objs, p.interned, p.interned[key])
             ELSE Interned(e.objs, MapPut(p.interned, key, e.out), e.out)

RECURSIVE CommonFrom(_, _, _)
CommonFrom(f1, f2, common) ==
    IF common < Len(f1) /\ common < Len(f2) /\ f1[common + 1] = f2[common + 1]
    THEN CommonFrom(f1, f2, common + 1)
    ELSE common

\* A faulty TrimCommonPrefix: counts one frame too many as common.
TrimOneTooMany(sf, other) ==
    LET common == CommonFrom(sf, other, 0)
    IN  IF common = 0 THEN <<sf, other>>
        ELSE <<SubSeq(sf, common + 2, Len(sf)), SubSeq(other, common + 2, Len(other))>>

TrimCommonPrefix(sf, other) ==
    LET common == CommonFrom(sf, other, 0)
    IN  IF common = 0 THEN <<sf, other>>
        ELSE <<SubSeq(sf, common + 1, Len(sf)), SubSeq(other, common + 1, Len(other))>>

\* TrimCommonPrefix on *StackFrame, with the slices it flattens into.  mem is
\* the memory of the arrays behind the slices, each a sequence of cells; a
\* slice is [arr, off, len, cap]: its array, where it starts in it, its length
\* and its capacity.
BufLen == 64
NoInstr == <<>>
NewArray(n) == [i \in 1..n |-> NoInstr]
Slice(arr, off, len, cap) == [arr |-> arr, off |-> off, len |-> len, cap |-> cap]
Sliced(mem, sl) == [mem |-> mem, sl |-> sl]
\* s[lo:hi]
Reslice(sl, lo, hi) == Slice(sl.arr, sl.off + lo, hi - lo, sl.cap - lo)
\* The elements of s as the memory has them.
Elems(mem, sl) == [i \in 1..sl.len |-> mem[sl.arr][sl.off + i]]
\* append(s, x): in place while the capacity lasts, else into a new array of
\* twice the capacity (one cell for a slice of capacity 0).
GoAppend(mem, sl, x) ==
    IF sl.len < sl.cap
    THEN Sliced([mem EXCEPT ![sl.arr][sl.off + sl.len + 1] = x],
                Slice(sl.arr, sl.off, sl.len + 1, sl.cap))
    ELSE LET newcap == IF sl.cap = 0 THEN 1 ELSE 2 * sl.cap
             old == Elems(mem, sl)
         IN  Sliced(Append(mem, [i \in 1..newcap |->
                                   IF i <= sl.len THEN old[i]
                                   ELSE IF i = sl.len + 1 THEN x ELSE NoInstr]),
                    Slice(Len(mem) + 1, 0, sl.len + 1, newcap))

\* sf.Flatten(into), into not nil: into[:0], then the calls of sf appended
\* from the outermost on, as the recursion unwinds.
RECURSIVE AppendAll(_, _)
AppendAll(r, calls) ==
    IF r.sl.len = Len(calls) THEN r
    ELSE AppendAll(GoAppend(r.mem, r.sl, calls[r.sl.len + 1]), calls)
FlattenInto(h, sf, mem, into) ==
    AppendAll(Sliced(mem, Reslice(into, 0, 0)), HeapFlatten(h, sf))

\* nsf = nsf.Extend(call) for each call of calls, in order.
HeapExtendAll(h, sf, calls) ==
    [objs |-> h \o [i \in 1..Len(calls) |->
                      [parent |-> IF i = 1 THEN sf ELSE Len(h) + i - 1, call |-> calls[i]]],
     out |-> IF calls = <<>> THEN sf ELSE Len(h) + Len(calls)]

Trimmed(h, a, b) == [objs |-> h, a |-> a, b |-> b]

\* TrimCommonPrefix with other flattened into into2(f1).
TrimInto(h, sf, other, into2(_)) ==
    LET buf == Slice(1, 0, BufLen, BufLen)
        r1 == FlattenInto(h, sf, <<NewArray(BufLen)>>, buf)
        r2 == FlattenInto(h, other, r1.mem, into2(r1.sl))
        f1 == Elems(r2.mem, r1.sl)
        f2 == Elems(r2.mem, r2.sl)
        common == CommonFrom(f1, f2, 0)
    IN  IF common = 0 THEN Trimmed(h, sf, other)
        ELSE LET n1 == HeapExtendAll(h, Nil, SubSeq(f1, common + 1, Len(f1)))
                 n2 == HeapExtendAll(n1.objs, Nil, SubSeq(f2, common + 1, Len(f2)))
             IN  Trimmed(n2.objs, n1.out, n2.out)

\* A faulty TrimCommonPrefix: other is flattened into the buffer f1 is in.
SameBuffer(f1) == Reslice(f1, 0, f1.len)
HeapTrimShared(h, sf, other) == TrimInto(h, sf, other, SameBuffer)

\* f1[len(f1):cap(f1)]
RestOf(f1) == Reslice(f1, f1.len, f1.cap)
HeapTrimCommonPrefix(h, sf, other) == TrimInto(h, sf, other, RestOf)

\* ------------------------------------------------------------------- LockSet
\* bits: the set of class ids whose bit is set; stacks: id -> stack.
EmptyStacks == [k \in {} |-> <<>>]
NewLockSet == [bits |-> {}, stacks |-> EmptyStacks]

\* set.stacks[k] of a Go map: nil for a missing key.
StackAt(set, k) == IF k \in DOMAIN set.stacks THEN set.stacks[k] ELSE <<>>

SetBit(set, id, stack) ==
    [bits |-> set.bits \cup {id},
     stacks |-> [k \in DOMAIN set.stacks \cup {id} |->
                    IF k = id THEN stack ELSE set.stacks[k]]]
\* A faulty delete: the bit is cleared and the stack stays in the map.
ClearBitOnly(set, id) == [bits |-> set.bits \ {id}, stacks |-> set.stacks]
ClearBit(set, id) ==
    [bits |-> set.bits \ {id},
     stacks |-> [k \in DOMAIN set.stacks \ {id} |-> set.stacks[k]]]

LockSetEqual(set, set2) ==
    /\ set.bits = set2.bits
    /\ \A k \in DOMAIN set.stacks : StackAt(set2, k) = set.stacks[k]

HashKey(set) == set.bits

RECURSIVE PlusFrom(_, _, _, _, _)
PlusFrom(out, labels, i, stack, sp) ==
    IF i > Len(labels) THEN out
    ELSE LET id == Intern(sp, labels[i])
             sp2 == InternSp(sp, labels[i])
         IN  IF id \in out.bits
             THEN PlusFrom(out, labels, i + 1, stack, sp2)
             ELSE PlusFrom(SetBit(out, id, stack), labels, i + 1, stack, sp2)
\* A faulty Plus: the loop stops before the last label.
PlusButLast(set, labels, stack, sp) ==
    PlusFrom(set, SubSeq(labels, 1, Len(labels) - 1), 1, stack, sp)

\* A faulty Plus: an empty points-to set is taken for one unknown lock.
PlusUnknown(set, labels, stack, sp) ==
    PlusFrom(set, IF labels = <<>> THEN <<"?">> ELSE labels, 1, stack, sp)

\* A faulty Plus: a class that is already held is re-added with the new stack.
RECURSIVE PlusOverwrite(_, _, _, _)
PlusOverwrite(set, labels, stack, sp) ==
    IF labels = <<>> THEN set
    ELSE PlusOverwrite(SetBit(set, Intern(sp, Head(labels)), stack), Tail(labels), stack,
                       InternSp(sp, Head(labels)))

Plus(set, labels, stack, sp) == PlusFrom(set, labels, 1, stack, sp)

PlusLabel(set, label, stack, sp) ==
    LET id == Intern(sp, label)
    IN  IF id \in set.bits THEN set ELSE SetBit(set, id, stack)

RECURSIVE MinusFrom(_, _, _, _)
MinusFrom(out, labels, i, sp) ==
    IF i > Len(labels) THEN out
    ELSE LET id == Intern(sp, labels[i])
             sp2 == InternSp(sp, labels[i])
         IN  IF id \notin out.bits
             THEN MinusFrom(out, labels, i + 1, sp2)
             ELSE MinusFrom(ClearBit(out, id), labels, i + 1, sp2)
Minus(set, labels, sp) == MinusFrom(set, labels, 1, sp)

MinusLabel(set, label, sp) ==
    LET id == Intern(sp, label)
    IN  IF id \notin set.bits THEN set ELSE ClearBit(set, id)

LockSetUnion(set, o) ==
    IF o.bits \ set.bits = {} THEN set
    ELSE [bits |-> set.bits \cup o.bits,
          stacks |-> [k \in DOMAIN set.stacks \cup DOMAIN o.stacks |->
                        IF k \in DOMAIN set.stacks /\ set.stacks[k] # <<>>
                        THEN set.stacks[k]
                        ELSE IF k \in DOMAIN o.stacks THEN o.stacks[k]
                        ELSE set.stacks[k]]]

\* call.Pos() of a call site: where the call is written, and token.NoPos for
\* an instruction of a synthetic function (a wrapper, a bound-method thunk),
\* which has no source position.
Synthetic == {"wrap"}
NoPos == <<>>
Pos(call) == IF call[1] \in Synthetic THEN NoPos ELSE call

\* Key(): the bits, then for each set bit the positions of its stack.
LockSetKey(set) ==
    <<set.bits, [k \in set.bits |-> [j \in 1..Len(StackAt(set, k)) |-> Pos(StackAt(set, k)[j])]]>>

\* LockSetSet: the map M from Key() to *LockSet.
NewLockSetSet == [k \in {} |-> NewLockSet]
LssAdd(lss, ss) ==
    [k \in DOMAIN lss \cup {LockSetKey(ss)} |->
        IF k = LockSetKey(ss) THEN ss ELSE lss[k]]
LssSets(lss) == {lss[k] : k \in DOMAIN lss}

\* ------------------------------------------------------- LockSet, on the heap
\* The same operations on *LockSet: h is the heap, a sequence of LockSet
\* objects, and a pointer is an index of h.  An operation yields the heap it
\* leaves behind and the pointer it returns.
Heap(h, out) == [objs |-> h, out |-> out]

\* A faulty clone: the receiver is handed out as its own copy.
CloneShared(h, set) == Heap(h, set)

Clone(h, set) ==
    Heap(Append(h, [bits |-> h[set].bits,
                    stacks |-> [k \in DOMAIN h[set].stacks |-> h[set].stacks[k]]]),
         Len(h) + 1)

RECURSIVE HeapPlusFrom(_, _, _, _, _, _, _)
HeapPlusFrom(h, set, out, labels, i, stack, sp) ==
    IF i > Len(labels) THEN Heap(h, out)
    ELSE LET id == Intern(sp, labels[i])
             sp2 == InternSp(sp, labels[i])
         IN  IF id \in h[out].bits
             THEN HeapPlusFrom(h, set, out, labels, i + 1, stack, sp2)
             ELSE LET c == IF out = set THEN Clone(h, out) ELSE Heap(h, out)
                  IN  HeapPlusFrom([c.objs EXCEPT ![c.out] = SetBit(@, id, stack)],
                                   set, c.out, labels, i + 1, stack, sp2)

\* A faulty Plus: it always works on a copy.
HeapPlusCopy(h, set, labels, stack, sp) ==
    LET c == Clone(h, set) IN HeapPlusFrom(c.objs, 0, c.out, labels, 1, stack, sp)

HeapPlus(h, set, labels, stack, sp) == HeapPlusFrom(h, set, set, labels, 1, stack, sp)

HeapPlusLabel(h, set, label, stack, sp) ==
    LET id == Intern(sp, label)
    IN  IF id \in h[set].bits THEN Heap(h, set)
        ELSE LET c == Clone(h, set)
             IN  Heap([c.objs EXCEPT ![c.out] = SetBit(@, id, stack)], c.out)

RECURSIVE HeapMinusFrom(_, _, _, _, _, _)
HeapMinusFrom(h, set, out, labels, i, sp) ==
    IF i > Len(labels) THEN Heap(h, out)
    ELSE LET id == Intern(sp, labels[i])
             sp2 == InternSp(sp, labels[i])
         IN  IF id \notin h[out].bits
             THEN HeapMinusFrom(h, set, out, labels, i + 1, sp2)
             ELSE LET c == IF out = set THEN Clone(h, out) ELSE Heap(h, out)
                  IN  HeapMinusFrom([c.objs EXCEPT ![c.out] = ClearBit(@, id)],
                                    set, c.out, labels, i + 1, sp2)

\* A faulty Minus: the last label of s is left in the set.
HeapMinusButLast(h, set, labels, sp) ==
    HeapMinusFrom(h, set, set, SubSeq(labels, 1, Len(labels) - 1), 1, sp)

HeapMinus(h, set, labels, sp) == HeapMinusFrom(h, set, set, labels, 1, sp)

HeapMinusLabel(h, set, label, sp) ==
    LET id == Intern(sp, label)
    IN  IF id \notin h[set].bits THEN Heap(h, set)
        ELSE LET c == Clone(h, set)
             IN  Heap([c.objs EXCEPT ![c.out] = ClearBit(@, id)], c.out)

\* out.bits.Or(o.bits), then o's stack wherever out has none (a nil entry
\* counts as none).
UnionInto(out, o) ==
    [bits |-> out.bits \cup o.bits,
     stacks |-> [k \in DOMAIN out.stacks \cup DOMAIN o.stacks |->
                    IF k \in DOMAIN o.stacks /\ StackAt(out, k) = <<>>
                    THEN o.stacks[k] ELSE out.stacks[k]]]

\* A faulty Union: it works on a copy even when o adds nothing.
HeapUnionCopy(h, set, o) ==
    LET c == Clone(h, set)
    IN  Heap([c.objs EXCEPT ![c.out] = UnionInto(@, h[o])], c.out)

HeapUnion(h, set, o) ==
    IF h[o].bits \ h[set].bits = {} THEN Heap(h, set)
    ELSE LET c == Clone(h, set)
         IN  Heap([c.objs EXCEPT ![c.out] = UnionInto(@, h[o])], c.out)

\* ------------------------------------------------------------------ ValState
\* vals: SSA value -> DynValue for the bound values; heap: HeapObject ->
\* DynValue.  A boolean DynConst is "T" or "F"; a DynHeapPtr is the name of
\* the object it points to; a DynStruct is a record of object names.
NoVals == [v \in {} |-> "T"]
VsExtend(vs, v, dyn) ==
    [vals |-> [k \in DOMAIN vs.vals \cup {v} |-> IF k = v THEN dyn ELSE vs.vals[k]],
     heap |-> vs.heap]
VsExtendHeap(vs, h, dyn) ==
    [vals |-> vs.vals,
     heap |-> [k \in DOMAIN vs.heap \cup {h} |-> IF k = h THEN dyn ELSE vs.heap[k]]]
VsLimitToHeap(vs) == [vals |-> NoVals, heap |-> vs.heap]

\* Get: "nil" when val has no known value.
VsGet(vs, val) ==
    IF val = "true" THEN "T"
    ELSE IF val = "false" THEN "F"
    ELSE IF val \in DOMAIN vs.vals THEN vs.vals[val]
    ELSE "nil"

\* EqualAt: agreement on every value of the mask and on the whole heap.
VsEqualAt(vs, vs2, mask) ==
    /\ \A v \in mask : VsGet(vs, v) = VsGet(vs2, v)
    /\ vs.heap = vs2.heap

\* Do: the effect of instr on the value state.
VsDo(vs, instr) ==
    IF instr.op = "not" /\ VsGet(vs, instr.arg) \in {"T", "F"}
    THEN VsExtend(vs, instr.val, IF VsGet(vs, instr.arg) = "T" THEN "F" ELSE "T")
    ELSE vs

\* The heap on entry from user space (main).
HeapObjects ==
    {"curG", "userG", "userG.m", "g0", "g0.m", "curM", "curM.curg", "curM.g0"}
InitialHeap ==
    [h \in HeapObjects |->
        CASE h = "curG"      -> "userG"
          [] h = "userG"     -> [m |-> "userG.m"]
          [] h = "userG.m"   -> "curM"
          [] h = "g0"        -> [m |-> "g0.m"]
          [] h = "g0.m"      -> "curM"
          [] h = "curM"      -> [curg |-> "curM.curg", g0 |-> "curM.g0"]
          [] h = "curM.curg" -> "userG"
          [] h = "curM.g0"   -> "g0"]
InitialVs == [vals |-> NoVals, heap |-> InitialHeap]

\* ------------------------------------------------------------------ liveness
\* Positions <<b, i>> identify instructions; a value that an instruction
\* defines is an ssa.Instruction, any other value (parameter, constant,
\* global) is not.
InstrPositions(f) ==
    UNION {{<<b, i>> : i \in 1..Len(Prog[f][b].instrs)} : b \in 1..NBlocks(f)}
IsInstrVal(f, v) ==
    v # "" /\ \E pos \in InstrPositions(f) : InstrAt(f, pos[1], pos[2]).val = v
DefPos(f, v) == CHOOSE pos \in InstrPositions(f) : InstrAt(f, pos[1], pos[2]).val = v
DefBlock(f, v) == DefPos(f, v)[1]

\* val.Operands (the values an instruction reads).
Operands(instr) ==
    IF instr.op = "phi" THEN instr.edges
    ELSE IF instr.arg = "" THEN <<>> ELSE <<instr.arg>>

\* walk(def, use): keep def live from use back to its defining block.  deps
\* is the set of <<block, value>> pairs.
RECURSIVE Walk(_, _, _, _), WalkPreds(_, _, _, _, _)
Walk(deps, f, def, use) ==
    IF <<use, def>> \in deps THEN deps
    ELSE IF DefBlock(f, def) = use THEN deps
    ELSE WalkPreds(deps \cup {<<use, def>>}, f, def, Preds(f, use), 1)
WalkPreds(deps, f, def, preds, k) ==
    IF k > Len(preds) THEN deps
    ELSE WalkPreds(Walk(deps, f, def, preds[k]), f, def, preds, k + 1)

\* doVal(val) with st = [deps, visited].
RECURSIVE DoVal(_, _, _), DoRands(_, _, _, _, _)
DoVal(st, f, pos) ==
    IF pos \in st.visited THEN st
    ELSE DoRands([deps |-> st.deps, visited |-> st.visited \cup {pos}],
                 f, pos, Operands(InstrAt(f, pos[1], pos[2])), 1)
DoRands(st, f, pos, rands, k) ==
    IF k > Len(rands) THEN st
    ELSE IF ~IsInstrVal(f, rands[k]) THEN DoRands(st, f, pos, rands, k + 1)
    ELSE LET isPhi == InstrAt(f, pos[1], pos[2]).op = "phi"
             d1 == IF isPhi THEN st.deps \cup {<<pos[1], rands[k]>>} ELSE st.deps
             use == IF isPhi THEN Preds(f, pos[1])[k] ELSE pos[1]
             d2 == Walk(d1, f, rands[k], use)
             st2 == DoVal([deps |-> d2, visited |-> st.visited], f, DefPos(f, rands[k]))
         IN  DoRands(st2, f, pos, rands, k + 1)

\* ifInstrs of walkFunction: the If that ends a block, in block order.
RECURSIVE IfInstrsFrom(_, _)
IfInstrsFrom(f, b) ==
    IF b > NBlocks(f) THEN <<>>
    ELSE LET n == Len(Prog[f][b].instrs)
         IN  (IF n > 0 /\ InstrAt(f, b, n).op = "if" THEN <<(<<b, n>>)>> ELSE <<>>)
             \o IfInstrsFrom(f, b + 1)

RECURSIVE DoVals(_, _, _, _)
DoVals(st, f, vals, k) ==
    IF k > Len(vals) THEN st
    ELSE DoVals(DoVal(st, f, vals[k]), f, vals, k + 1)

livenessFor(f, vals) ==
    LET st == DoVals([deps |-> {}, visited |-> {}], f, vals, 1)
    IN  [b \in 1..NBlocks(f) |-> {v \in {d[2] : d \in st.deps} : <<b, v>> \in st.deps}]

\* ----------------------------------------------------------------- PathState
\* block 0 and mask {} stand for nil.
PathState(block, lockSet, vs, mask) ==
    [block |-> block, lockSet |-> lockSet, vs |-> vs, mask |-> mask]

PsHashKey(ps) == <<ps.block, HashKey(ps.lockSet)>>

PsEqual(ps, ps2) ==
    /\ ps.block = ps2.block
    /\ LockSetEqual(ps.lockSet, ps2.lockSet)
    /\ VsEqualAt(ps.vs, ps2.vs, ps.mask)

\* -------------------------------------------------------------- PathStateSet
\* The map m: pathStateKey -> slice of PathState.
NewPathStateSet == [k \in {} |-> <<>>]
SliceOf(set, key) == IF key \in DOMAIN set THEN set[key] ELSE <<>>
PutSlice(set, key, slice) ==
    [k \in DOMAIN set \cup {key} |-> IF k = key THEN slice ELSE set[k]]
DelKey(set, key) == [k \in DOMAIN set \ {key} |-> set[k]]

PssAdd(set, ps) ==
    LET key == PsHashKey(ps)
        slice == SliceOf(set, key)
    IN  IF \E i \in 1..Len(slice) : PsEqual(slice[i], ps) THEN set
        ELSE PutSlice(set, key, Append(slice, ps))

\* A faulty Contains: it never finds the state.
PssContainsNever(set, ps) == <<FALSE, Len(SliceOf(set, PsHashKey(ps)))>>

\* Contains: <<cached, similar>>.
PssContains(set, ps) ==
    LET slice == SliceOf(set, PsHashKey(ps))
    IN  <<\E i \in 1..Len(slice) : PsEqual(slice[i], ps), Len(slice)>>

RECURSIVE PssAddAll(_, _, _)
PssAddAll(set, pss, i) ==
    IF i > Len(pss) THEN set ELSE PssAddAll(PssAdd(set, pss[i]), pss, i + 1)

\* The orders in which a Go map with key set S may be ranged over.
Perms(S) ==
    {o \in [1..Cardinality(S) -> S] : \A i, j \in 1..Cardinality(S) : o[i] = o[j] => i = j}

\* MapInPlace's inner loop over one slice; fm[ps] is f(ps).  r = [slice, toAdd].
RECURSIVE MapSlice(_, _, _)
MapSlice(r, fm, i) ==
    IF i > Len(r.slice) THEN r
    ELSE LET ps2 == fm[r.slice[i]]
             n == Len(r.slice)
         IN  IF PsEqual(r.slice[i], ps2) THEN MapSlice(r, fm, i + 1)
             ELSE MapSlice(
                    [slice |-> SubSeq([r.slice EXCEPT ![i] = r.slice[n]], 1, n - 1),
                     toAdd |-> Append(r.toAdd, ps2)],
                    fm, i + 1)

\* MapInPlace's outer loop, ranging over the keys in the given order.
\* r = [set, toAdd].
RECURSIVE MapKeys(_, _, _, _)
MapKeys(r, fm, order, k) ==
    IF k > Len(order) THEN r
    ELSE LET key == order[k]
             m == MapSlice([slice |-> r.set[key], toAdd |-> r.toAdd], fm, 1)
             set2 == IF Len(m.slice) = 0 THEN DelKey(r.set, key)
                     ELSE PutSlice(r.set, key, m.slice)
         IN  MapKeys([set |-> set2, toAdd |-> m.toAdd], fm, order, k + 1)

MapInPlace(set, fm, order) ==
    LET r == MapKeys([set |-> set, toAdd |-> <<>>], fm, order, 1)
    IN  PssAddAll(r.set, r.toAdd, 1)

\* The path states of set in the order ForEach / FlatMap visits them when the
\* map is ranged over in the given key order.
RECURSIVE Flatten(_, _, _)
Flatten(set, order, k) ==
    IF k > Len(order) THEN <<>>
    ELSE set[order[k]] \o Flatten(set, order, k + 1)

PssElems(set) == UNION {Range(set[k]) : k \in DOMAIN set}

\* -------------------------------------------------------------- PathStateMap
\* The map m: pathStateKey -> slice of entries [ps, val].
NewPathStateMap == [k \in {} |-> <<>>]
PsmSet(psm, ps, val) ==
    LET key == PsHashKey(ps)
        slice == SliceOf(psm, key)
    IN  IF \E i \in 1..Len(slice) : PsEqual(slice[i].ps, ps)
        THEN LET i == CHOOSE j \in 1..Len(slice) :
                        /\ PsEqual(slice[j].ps, ps)
                        /\ \A l \in 1..(j - 1) : ~PsEqual(slice[l].ps, ps)
             IN  PutSlice(psm, key, [slice EXCEPT ![i].val = val])
        ELSE PutSlice(psm, key, Append(slice, [ps |-> ps, val |-> val]))

PsmHas(psm, ps) ==
    \E i \in 1..Len(SliceOf(psm, PsHashKey(ps))) :
        PsEqual(SliceOf(psm, PsHashKey(ps))[i].ps, ps)
PsmGet(psm, ps) ==
    LET slice == SliceOf(psm, PsHashKey(ps))
        i == CHOOSE j \in 1..Len(slice) :
                /\ PsEqual(slice[j].ps, ps)
                /\ \A l \in 1..(j - 1) : ~PsEqual(slice[l].ps, ps)
    IN  slice[i].val

\* ----------------------------------------------------------------- LockOrder
\* An edge with its witness: class ids from -> to, and the two stacks after
\* common-prefix trimming.  lockOrder is the set of them (deduplicated).
Edge(from, to, fromStack, toStack) ==
    LET t == TrimCommonPrefix(fromStack, toStack)
    IN  [from |-> from, to |-> to, fromStack |-> t[1], toStack |-> t[2]]

\* LockOrder with its reverse index: m is the set of the deduplication keys
\* (from, to, trimmed from-stack, trimmed to-stack), index lists per (from, to)
\* the witnessing stack pairs in the order they were stored.
NewLockOrder == [m |-> {}, index |-> [p \in {} |-> <<>>]]
Witnesses(lo, from, to) ==
    IF <<from, to>> \in DOMAIN lo.index THEN lo.index[<<from, to>>] ELSE <<>>
\* A faulty add: every call stores a witness.
LockOrderAddAll(lo, from, to, fromStack, toStack) ==
    LET t == TrimCommonPrefix(fromStack, toStack)
    IN  [m |-> lo.m \cup {<<from, to, t[1], t[2]>>},
         index |-> [p \in DOMAIN lo.index \cup {<<from, to>>} |->
                      IF p = <<from, to>> THEN Append(Witnesses(lo, from, to), <<t[1], t[2]>>)
                      ELSE lo.index[p]]]
\* add(from, to, from_stack, to_stack)
LockOrderAdd(lo, from, to, fromStack, toStack) ==
    LET t == TrimCommonPrefix(fromStack, toStack)
        key == <<from, to, t[1], t[2]>>
    IN  IF key \in lo.m THEN lo
        ELSE [m |-> lo.m \cup {key},
              index |-> [p \in DOMAIN lo.index \cup {<<from, to>>} |->
                           IF p = <<from, to>>
                           THEN Append(Witnesses(lo, from, to), <<t[1], t[2]>>)
                           ELSE lo.index[p]]]

\* The class graph: edges collapsed.
ClassEdges(lo) == {<<e.from, e.to>> : e \in lo}
ClassNodes(lo) == {e.from : e \in lo} \cup {e.to : e \in lo}

MinOf(S) == CHOOSE m \in S : \A n \in S : m <= n

\* A faulty cycle finder: a cycle is reported from each of its nodes.
FindCyclesFromEach(lo) ==
    LET N == ClassNodes(lo)
        E == ClassEdges(lo)
    IN  {c \in UNION {[1..n -> N] : n \in 1..Cardinality(N)} :
            /\ \A i, j \in DOMAIN c : c[i] = c[j] => i = j
            /\ \A i \in DOMAIN c : <<c[i], c[(i % Len(c)) + 1]>> \in E}
\* FindCycles: the simple cycles of the class graph, each as the sequence of
\* its nodes starting at its smallest node.
FindCycles(lo) ==
    LET N == ClassNodes(lo)
        E == ClassEdges(lo)
    IN  {c \in UNION {[1..n -> N] : n \in 1..Cardinality(N)} :
            /\ \A i, j \in DOMAIN c : c[i] = c[j] => i = j
            /\ c[1] = MinOf(Range(c))
            /\ \A i \in DOMAIN c : <<c[i], c[(i % Len(c)) + 1]>> \in E}

\* ---------------------------------------------------------------- the state
VARIABLES
    sp,         \* the StringSpace (sp.s)
    lockOrder,  \* s.lockOrder
    roots,      \* s.roots
    rootSet,    \* s.rootSet
    rootIdx,    \* main's loop index i (from 1)
    fns,        \* s.fns: function -> [exitLockSets, ifDeps]
    stack,      \* s.stack
    warnings,   \* the warnings printed so far
    ctl,        \* the analyzer's own call stack: activations of main's loop
                \* body, walkFunction, walkBlock and doCall, innermost last
    retv,       \* the value a walkFunction call has just returned
    pc,         \* "main" | "done" | "overflow"
    cycles,     \* FindCycles() of the report
    prior,      \* the initial roots, and the report of an earlier run on them
    strings,    \* a StringSpace under test, with its last Intern call
    locksets,   \* LockSet objects under test, with the last operation on them
    frames,     \* StackFrame objects under test, with internedStackFrames
    tested      \* the last direct call of TrimCommonPrefix or MapInPlace

\* The analysis proper, and everything else.
walk == <<sp, lockOrder, roots, rootSet, rootIdx, fns, stack, warnings, ctl, retv, pc, cycles>>
others == <<prior, strings, locksets, frames, tested>>
vars == <<walk, others>>

\* No earlier run: only the input is known.
NoPrior(rs) == [roots |-> rs, done |-> FALSE, edges |-> {}, cycles |-> {}]

\* The objects under test before any call.
\* A StringSpace, the last Intern call on it (str, id) and the strings it
\* was asked for, in the order of their first mention.
Strs == {"A", "B", "C", "D"}
StringsInit == [m |-> [x \in {} |-> 0], s |-> <<>>, str |-> "", id |-> 0, seen |-> <<>>]
\* The references a caller of the LockSet operations holds, and what the
\* operations are given.
Slots == <<"s", "o">>
LabelLists == {<<>>, <<"A">>, <<"B">>, <<"A", "B">>, <<"B", "A">>}
Stks == {<<>>, << <<"wrap", 1, 1>> >>, << <<"wrap", 1, 2>> >>}

\* One call: the operation, the receiver and the other operand (pointers),
\* the labels and the stack passed, the pointer returned (mid: the one
\* returned by the first call of a chain), the answer of a query, and the
\* heap before and after it.
LsCall(op, recv, arg, labels, stk, mid, out, res, before, after) ==
    [op |-> op, recv |-> recv, arg |-> arg, labels |-> labels, stk |-> stk, mid |-> mid,
     out |-> out, res |-> res, before |-> before, after |-> after]
\* No call is being looked at.
NoCall == LsCall("", 0, 0, <<>>, <<>>, 0, 0, <<>>, <<>>, <<>>)
LocksetsInit ==
    [sp |-> <<>>, objs |-> <<NewLockSet>>, refs |-> [x \in Range(Slots) |-> 1],
     call |-> NoCall]
\* The stack frames a caller holds and builds: two references, two call
\* instructions, and the call sequences it goes up to.
FrameSlots == <<"a", "b">>
Calls == {<<"f", 1, 1>>, <<"g", 1, 1>>}
StackSeqs ==
    << << <<"f", 1, 1>> >>, << <<"g", 1, 1>> >>,
       << <<"f", 1, 1>>, <<"f", 1, 1>> >>, << <<"f", 1, 1>>, <<"g", 1, 1>> >> >>
\* What a caller sees of the last call: the call sequences of the frames
\* passed, whether they were interned pointers, and how the pointers
\* returned compare.
NoSeen == [op |-> "", a |-> <<>>, b |-> <<>>, aCanon |-> FALSE, bCanon |-> FALSE,
           same |-> FALSE, again |-> FALSE, kept |-> FALSE]
FramesInit ==
    [objs |-> <<>>, interned |-> [k \in {} |-> 0],
     refs |-> [x \in Range(FrameSlots) |-> Nil], call |-> NoSeen]
\* No direct call of TrimCommonPrefix or MapInPlace is being looked at.
NoTest == [op |-> ""]
Idle ==
    /\ strings = StringsInit /\ locksets = LocksetsInit /\ frames = FramesInit
    /\ tested = NoTest

NoRet == [valid |-> FALSE, val |-> NewLockSetSet]
Ret(lss) == [valid |-> TRUE, val |-> lss]

\* The initial root lists: up to MaxRoots distinct functions, or one function
\* on its own.
RootLists ==
    {rs \in UNION {[1..n -> RootCandidates] : n \in 1..MaxRoots} :
        \A i, j \in DOMAIN rs : rs[i] = rs[j] => i = j}
    \cup {<<f>> : f \in SoloCandidates}

Init ==
    /\ sp = <<>>
    /\ lockOrder = {}
    /\ roots \in RootLists
    /\ rootSet = Range(roots)
    /\ rootIdx = 1
    /\ fns = [f \in {} |-> 0]
    /\ stack = <<>>
    /\ warnings = <<>>
    /\ ctl = <<>>
    /\ retv = NoRet
    /\ pc = "main"
    /\ cycles = {}
    /\ prior = NoPrior(roots)
    /\ Idle

Top == ctl[Len(ctl)]
Pop(c) == SubSeq(c, 1, Len(c) - 1)
Running == pc = "main" /\ Len(ctl) + 2 <= MaxDepth

Warn(kind, what) == [kind |-> kind, what |-> what]

\* A faulty addRoot: the function is marked as a root but never queued.
AddRootSetOnly(r, fn) == [roots |-> r.roots, rootSet |-> r.rootSet \cup {fn}]

\* addRoot, on r = [roots, rootSet].
AddRoot(r, fn) ==
    IF fn \in r.rootSet THEN r
    ELSE [roots |-> Append(r.roots, fn), rootSet |-> r.rootSet \cup {fn}]
RECURSIVE AddRoots(_, _, _)
AddRoots(r, callees, i) ==
    IF i > Len(callees) THEN r
    ELSE AddRoots(AddRoot(r, callees[i]), callees, i + 1)

\* ------------------------------------------------------------- walkFunction
WfFrame(f, ps) ==
    [k |-> "wf", f |-> f, ps |-> ps, blockCache |-> NewPathStateSet, exits |-> NewLockSetSet]
WbFrame(f, ps) ==
    [k |-> "wb", f |-> f, b |-> ps.block, phase |-> "enter", enter |-> ps,
     set |-> NewPathStateSet, pc |-> 1, ifCond |-> "", todo |-> <<>>]

\* The liveness of the If conditions depends on the function alone.
IfDeps == [f \in Funcs |-> livenessFor(f, IfInstrsFrom(f, 1))]
FirstVisitInfo(f) ==
    [exitLockSets |-> NewPathStateMap, ifDeps |-> IfDeps[f]]
PutFn(fs, f, info) == [g \in DOMAIN fs \cup {f} |-> IF g = f THEN info ELSE fs[g]]

\* A faulty walkFunction: the external-function warning is printed at every
\* call.
WalkFunctionWarnAll(f, ps, base) ==
    LET first == f \notin DOMAIN fns
        fInfo == IF first THEN FirstVisitInfo(f) ELSE fns[f]
        fns1 == PutFn(fns, f, fInfo)
    IN  /\ warnings' = IF Prog[f] = <<>>
                       THEN Append(warnings, Warn("external function", f))
                       ELSE warnings
        /\ IF Prog[f] = <<>>
           THEN /\ fns' = fns1
                /\ retv' = Ret(LssAdd(NewLockSetSet, ps.lockSet))
                /\ ctl' = base
           ELSE IF PsmHas(fInfo.exitLockSets, ps)
           THEN /\ fns' = fns1
                /\ retv' = Ret(PsmGet(fInfo.exitLockSets, ps))
                /\ ctl' = base
           ELSE /\ fns' = PutFn(fns, f, [fInfo EXCEPT !.exitLockSets =
                                            PsmSet(@, ps, NewLockSetSet)])
                /\ retv' = NoRet
                /\ ctl' = base \o <<WfFrame(f, ps),
                                    WbFrame(f, PathState(1, ps.lockSet, ps.vs, {}))>>

\* The call walkFunction(f, ps) made with the caller's activations in base:
\* it returns at once (external function, memoized result) or starts walking
\* the entry block.
WalkFunction(f, ps, base) ==
    LET first == f \notin DOMAIN fns
        fInfo == IF first THEN FirstVisitInfo(f) ELSE fns[f]
        fns1 == PutFn(fns, f, fInfo)
    IN  /\ warnings' = IF first /\ Prog[f] = <<>>
                       THEN Append(warnings, Warn("external function", f))
                       ELSE warnings
        /\ IF Prog[f] = <<>>
           THEN /\ fns' = fns1
                /\ retv' = Ret(LssAdd(NewLockSetSet, ps.lockSet))
                /\ ctl' = base
           ELSE IF PsmHas(fInfo.exitLockSets, ps)
           THEN /\ fns' = fns1
                /\ retv' = Ret(PsmGet(fInfo.exitLockSets, ps))
                /\ ctl' = base
           ELSE /\ fns' = PutFn(fns, f, [fInfo EXCEPT !.exitLockSets =
                                            PsmSet(@, ps, NewLockSetSet)])
                /\ retv' = NoRet
                /\ ctl' = base \o <<WfFrame(f, ps),
                                    WbFrame(f, PathState(1, ps.lockSet, ps.vs, {}))>>

\* A faulty end of walkFunction: the exit set is returned and never stored.
WfReturnUnstored ==
    /\ Running /\ ctl # <<>> /\ Top.k = "wf"
    /\ retv' = Ret(Top.exits)
    /\ ctl' = Pop(ctl)
    /\ UNCHANGED <<sp, lockOrder, roots, rootSet, rootIdx, fns, stack, warnings, pc, cycles, others>>

\* walkFunction's end: walkBlock of the entry block has returned.
WfReturn ==
    /\ Running /\ ctl # <<>> /\ Top.k = "wf"
    /\ fns' = [fns EXCEPT ![Top.f].exitLockSets = PsmSet(@, Top.ps, Top.exits)]
    /\ retv' = Ret(Top.exits)
    /\ ctl' = Pop(ctl)
    /\ UNCHANGED <<sp, lockOrder, roots, rootSet, rootIdx, stack, warnings, pc, cycles, others>>

\* ---------------------------------------------------------------------- main
\* A faulty loop body: it walks the first root whatever the index.
RootCallFirst ==
    /\ Running /\ ctl = <<>> /\ rootIdx <= Len(roots)
    /\ WalkFunction(roots[1], PathState(0, NewLockSet, InitialVs, {}),
                    <<[k |-> "root", f |-> roots[1]]>>)
    /\ UNCHANGED <<sp, lockOrder, roots, rootSet, rootIdx, stack, pc, cycles, others>>

\* The body of main's loop up to the call of walkFunction.
RootCall ==
    /\ Running /\ ctl = <<>> /\ rootIdx <= Len(roots)
    /\ WalkFunction(roots[rootIdx], PathState(0, NewLockSet, InitialVs, {}),
                    <<[k |-> "root", f |-> roots[rootIdx]]>>)
    /\ UNCHANGED <<sp, lockOrder, roots, rootSet, rootIdx, stack, pc, cycles, others>>

\* One warning for each exit lockset that still holds a lock.
RECURSIVE Repeat(_, _)
Repeat(x, n) == IF n = 0 THEN <<>> ELSE <<x>> \o Repeat(x, n - 1)

\* A faulty loop body: the test for a held lock is inverted.
RootReturnInverted ==
    /\ Running /\ ctl # <<>> /\ Top.k = "root" /\ retv.valid
    /\ warnings' = warnings \o
          Repeat(Warn("locks at return from root", Top.f),
                 Cardinality({key \in DOMAIN retv.val : DOMAIN retv.val[key].stacks = {}}))
    /\ rootIdx' = rootIdx + 1
    /\ ctl' = <<>>
    /\ retv' = NoRet
    /\ UNCHANGED <<sp, lockOrder, roots, rootSet, fns, stack, pc, cycles, others>>

RootReturn ==
    /\ Running /\ ctl # <<>> /\ Top.k = "root" /\ retv.valid
    /\ warnings' = warnings \o
          Repeat(Warn("locks at return from root", Top.f),
                 Cardinality({key \in DOMAIN retv.val : DOMAIN retv.val[key].stacks # {}}))
    /\ rootIdx' = rootIdx + 1
    /\ ctl' = <<>>
    /\ retv' = NoRet
    /\ UNCHANGED <<sp, lockOrder, roots, rootSet, fns, stack, pc, cycles, others>>

\* After the loop: the report.
Report ==
    /\ pc = "main" /\ ctl = <<>> /\ rootIdx > Len(roots)
    /\ cycles' = FindCycles(lockOrder)
    /\ pc' = "done"
    /\ UNCHANGED <<sp, lockOrder, roots, rootSet, rootIdx, fns, stack, warnings, ctl, retv, others>>

\* The analyzer's recursion has outgrown the goroutine stack.
Overflow ==
    /\ pc = "main" /\ Len(ctl) + 2 > MaxDepth
    /\ pc' = "overflow"
    /\ UNCHANGED <<sp, lockOrder, roots, rootSet, rootIdx, fns, stack, warnings, ctl, retv, cycles, others>>

\* ---------------------------------------------------------------- walkBlock
\* The innermost walkFunction activation: it owns blockCache and exitLockSets.
WfIdx == CHOOSE i \in 1..Len(ctl) :
            ctl[i].k = "wf" /\ \A j \in (i + 1)..Len(ctl) : ctl[j].k # "wf"

\* walkBlock's entry: install the mask, consult the visited set.
BlockEnter ==
    /\ Running /\ ctl # <<>> /\ Top.k = "wb" /\ Top.phase = "enter"
    /\ LET ps == [Top.enter EXCEPT !.mask = fns[Top.f].ifDeps[Top.b]]
           c == PssContains(ctl[WfIdx].blockCache, ps)
       IN  IF c[1]
           THEN /\ ctl' = Pop(ctl)
                /\ warnings' = warnings
           ELSE IF c[2] > MaxSimilar
           THEN /\ ctl' = Pop(ctl)
                /\ warnings' = Append(warnings, Warn("too many states", <<Top.f, Top.b>>))
           ELSE /\ ctl' = [ctl EXCEPT
                             ![WfIdx].blockCache = PssAdd(@, ps),
                             ![Len(ctl)] = [@ EXCEPT !.phase = "instrs", !.enter = ps,
                                                     !.set = PssAdd(NewPathStateSet, ps)]]
                /\ warnings' = warnings
    /\ UNCHANGED <<sp, lockOrder, roots, rootSet, rootIdx, fns, stack, retv, pc, cycles, others>>

\* f of MapInPlace for "ps.vs = ps.vs.Do(instr)", tabulated on the set.
DoMap(set, instr) == [ps \in PssElems(set) |-> [ps EXCEPT !.vs = VsDo(ps.vs, instr)]]

\* f of MapInPlace for "ps.lockSet = ps.lockSet.MinusLabel(label)", tabulated
\* on the set.
ReleasedLabel == "runtime.trace.bufLock"
ReleaseMap(set, sp0) ==
    [ps \in PssElems(set) |-> [ps EXCEPT !.lockSet = MinusLabel(ps.lockSet, ReleasedLabel, sp0)]]
\* The function whose Return releases ReleasedLabel.
Releases(f) == f = "traceReleaseBuffer"

\* Adding the lockset of each path state, in the given order, to the exit set.
RECURSIVE AddExits(_, _, _)
AddExits(lss, pss, i) ==
    IF i > Len(pss) THEN lss ELSE AddExits(LssAdd(lss, pss[i].lockSet), pss, i + 1)

CallFrame(site, callees, pss) ==
    [k |-> "call", site |-> site, fnsq |-> callees, cur |-> Head(pss), iter |-> Tail(pss),
     fi |-> 1, newps |-> <<>>, out |-> NewPathStateSet]

\* The Return of a function with a release rule, once the rule has been
\* applied to the working set: every lockset of set2 goes to the exit set.
ReturnReleased(set2, next) ==
    \E order4 \in Perms(DOMAIN set2) :
        ctl' = [ctl EXCEPT ![Len(ctl)] = [next EXCEPT !.set = set2],
                           ![WfIdx].exits = AddExits(@, Flatten(set2, order4, 1), 1)]

\* One instruction of the block, for all working path states.
BlockInstr ==
    /\ Running /\ ctl # <<>> /\ Top.k = "wb" /\ Top.phase = "instrs"
    /\ Top.pc <= Len(Prog[Top.f][Top.b].instrs)
    /\ LET instr == InstrAt(Top.f, Top.b, Top.pc)
           n == Len(ctl)
           outs == Callees(Top.f, instr)
       IN  \E order \in Perms(DOMAIN Top.set) :
           LET set1 == MapInPlace(Top.set, DoMap(Top.set, instr), order)
           IN  \E order2 \in Perms(DOMAIN set1) :
               LET pss == Flatten(set1, order2, 1)
                   next == [Top EXCEPT !.set = set1, !.pc = @ + 1]
               IN  CASE instr.op = "if" ->
                        /\ ctl' = [ctl EXCEPT ![n] = [next EXCEPT !.ifCond = instr.arg]]
                        /\ UNCHANGED <<roots, rootSet, stack>>
                     [] instr.op = "call" /\ Len(outs) > 0 /\ pss # <<>> ->
                        /\ stack' = Extend(stack, <<Top.f, Top.b, Top.pc>>)
                        /\ ctl' = [ctl EXCEPT ![n] = [Top EXCEPT !.set = set1]]
                                  \o <<CallFrame(<<Top.f, Top.b, Top.pc>>, outs, pss)>>
                        /\ UNCHANGED <<roots, rootSet>>
                     [] instr.op = "call" /\ Len(outs) > 0 /\ pss = <<>> ->
                        /\ ctl' = [ctl EXCEPT ![n] = [next EXCEPT !.set = NewPathStateSet]]
                        /\ UNCHANGED <<roots, rootSet, stack>>
                     [] instr.op = "go" ->
                        /\ LET r == AddRoots([roots |-> roots, rootSet |-> rootSet], outs, 1)
                           IN  roots' = r.roots /\ rootSet' = r.rootSet
                        /\ ctl' = [ctl EXCEPT ![n] = next]
                        /\ UNCHANGED stack
                     [] instr.op = "ret" /\ ~Releases(Top.f) ->
                        /\ ctl' = [ctl EXCEPT ![n] = next,
                                              ![WfIdx].exits = AddExits(@, pss, 1)]
                        /\ UNCHANGED <<roots, rootSet, stack>>
                     [] instr.op = "ret" /\ Releases(Top.f) ->
                        /\ \E order3 \in Perms(DOMAIN set1) :
                              ReturnReleased(MapInPlace(set1, ReleaseMap(set1, sp), order3), next)
                        /\ UNCHANGED <<roots, rootSet, stack>>
                     [] OTHER ->
                        /\ ctl' = [ctl EXCEPT ![n] = next]
                        /\ UNCHANGED <<roots, rootSet, stack>>
    /\ sp' = IF /\ InstrAt(Top.f, Top.b, Top.pc).op = "ret" /\ Releases(Top.f)
                /\ Top.set # NewPathStateSet
             THEN InternSp(sp, ReleasedLabel) ELSE sp
    /\ warnings' = IF NoCallGraph(Top.f, InstrAt(Top.f, Top.b, Top.pc))
                   THEN Append(warnings, Warn("no call graph for", <<Top.f, Top.b, Top.pc>>))
                   ELSE warnings
    /\ UNCHANGED <<lockOrder, rootIdx, fns, retv, pc, cycles, others>>

\* A faulty successor choice: a known condition prunes nothing.
TakenSuccsAll(f, b, ifCond, ps) == Prog[f][b].succs

\* b.Succs as a path state takes them: all of them, or the one a known
\* condition selects (succs[:1] or succs[1:]).
TakenSuccs(f, b, ifCond, ps) ==
    LET succs == Prog[f][b].succs
        x == VsGet(ps.vs, ifCond)
    IN  IF ifCond # "" /\ x # "nil"
        THEN (IF x = "T" THEN SubSeq(succs, 1, 1) ELSE SubSeq(succs, 2, Len(succs)))
        ELSE succs

\* The index of block b in preds of b2 decides which edge of a phi is read.
RECURSIVE PhiEdges(_, _, _, _, _, _)
PhiEdges(vs, f, b, b2, phi, i) ==
    IF i > Len(phi.edges) THEN vs
    ELSE LET x == VsGet(vs, phi.edges[i])
         IN  IF Preds(f, b2)[i] = b /\ x # "nil"
             THEN PhiEdges(VsExtend(vs, phi.val, x), f, b, b2, phi, i + 1)
             ELSE PhiEdges(vs, f, b, b2, phi, i + 1)
RECURSIVE PhiProp(_, _, _, _, _)
PhiProp(vs, f, b, b2, k) ==
    IF k > Len(Prog[f][b2].instrs) \/ InstrAt(f, b2, k).op # "phi" THEN vs
    ELSE PhiProp(PhiEdges(vs, f, b, b2, InstrAt(f, b2, k), 1), f, b, b2, k + 1)

\* ps2 for the i-th (from 0) taken successor b2 of b.
SuccState(f, b, ifCond, ps, i, b2) ==
    LET vs1 == IF ifCond # "" THEN VsExtend(ps.vs, ifCond, IF i = 0 THEN "T" ELSE "F")
               ELSE ps.vs
    IN  [ps EXCEPT !.block = b2, !.vs = PhiProp(vs1, f, b, b2, 1)]

SuccStates(f, b, ifCond, ps) ==
    LET succs == TakenSuccs(f, b, ifCond, ps)
    IN  [i \in 1..Len(succs) |-> SuccState(f, b, ifCond, ps, i - 1, succs[i])]

RECURSIVE AllSuccStates(_, _, _, _, _)
AllSuccStates(f, b, ifCond, pss, k) ==
    IF k > Len(pss) THEN <<>>
    ELSE SuccStates(f, b, ifCond, pss[k]) \o AllSuccStates(f, b, ifCond, pss, k + 1)

\* The instructions are done: line up the successor walks.
BlockSuccs ==
    /\ Running /\ ctl # <<>> /\ Top.k = "wb" /\ Top.phase = "instrs"
    /\ Top.pc > Len(Prog[Top.f][Top.b].instrs)
    /\ \E order \in Perms(DOMAIN Top.set) :
         ctl' = [ctl EXCEPT ![Len(ctl)] =
                    [@ EXCEPT !.phase = "succs",
                              !.todo = AllSuccStates(Top.f, Top.b, Top.ifCond,
                                                     Flatten(Top.set, order, 1), 1)]]
    /\ UNCHANGED <<sp, lockOrder, roots, rootSet, rootIdx, fns, stack, warnings, retv, pc, cycles, others>>

\* The next recursive walkBlock, or walkBlock's return.
BlockNext ==
    /\ Running /\ ctl # <<>> /\ Top.k = "wb" /\ Top.phase = "succs"
    /\ IF Top.todo = <<>>
       THEN ctl' = Pop(ctl)
       ELSE ctl' = [ctl EXCEPT ![Len(ctl)].todo = Tail(@)] \o <<WbFrame(Top.f, Head(Top.todo))>>
    /\ UNCHANGED <<sp, lockOrder, roots, rootSet, rootIdx, fns, stack, warnings, retv, pc, cycles, others>>

\* ------------------------------------------------------------- call handlers
callHandlers == {"lock", "unlock", "gopanic"}

\* The labels of the points-to set of the lock argument of a call.
PointsTo(site) ==
    LET arg == InstrAt(site[1], site[2], site[3]).arg
    IN  IF arg \in DOMAIN Pts THEN Pts[arg] ELSE <<>>

\* lock: the order edges from every held class to every class of the points-to
\* set, with the stack each held class was acquired at and the current stack.
LockEdges(ls, labels, stk, sp0) ==
    {Edge(h, Intern(InternAll(sp0, labels, 1), labels[i]), StackAt(ls, h), stk) :
        h \in ls.bits, i \in 1..Len(labels)}

\* The successor path states a handler returns for ps.
HandlerStates(fn, ps, site, stk, sp0) ==
    CASE fn = "lock"   -> <<[ps EXCEPT !.lockSet = Plus(ps.lockSet, PointsTo(site), stk, sp0)]>>
      [] fn = "unlock" -> <<[ps EXCEPT !.lockSet = Minus(ps.lockSet, PointsTo(site), sp0)]>>
      [] fn = "gopanic" -> <<>>

HandlerEdges(fn, ps, site, stk, sp0) ==
    IF fn = "lock" THEN LockEdges(ps.lockSet, PointsTo(site), stk, sp0) ELSE {}

HandlerSp(fn, site, sp0) ==
    IF fn \in {"lock", "unlock"} THEN InternAll(sp0, PointsTo(site), 1) ELSE sp0

\* ------------------------------------------------------------------- doCall
\* The next callee for the current path state: its handler, or walkFunction.
CallFn ==
    /\ Running /\ ctl # <<>> /\ Top.k = "call" /\ ~retv.valid
    /\ Top.fi <= Len(Top.fnsq)
    /\ LET fn == Top.fnsq[Top.fi]
       IN  IF fn \in callHandlers
           THEN /\ lockOrder' = lockOrder \cup HandlerEdges(fn, Top.cur, Top.site, stack, sp)
                /\ sp' = HandlerSp(fn, Top.site, sp)
                /\ ctl' = [ctl EXCEPT ![Len(ctl)] =
                             [@ EXCEPT !.newps = @ \o HandlerStates(fn, Top.cur, Top.site, stack, sp),
                                       !.fi = @ + 1]]
                /\ UNCHANGED <<fns, warnings, retv>>
           ELSE /\ WalkFunction(fn, PathState(0, Top.cur.lockSet, VsLimitToHeap(Top.cur.vs), {}), ctl)
                /\ UNCHANGED <<sp, lockOrder>>
    /\ UNCHANGED <<roots, rootSet, rootIdx, stack, pc, cycles, others>>

\* A faulty successor: the caller's SSA bindings are dropped at the call.
CallSuccHeapOnly(ps, ls) == [ps EXCEPT !.lockSet = ls, !.vs = VsLimitToHeap(ps.vs)]

\* "ps.lockSet = ls; newps = append(newps, ps)": the caller's path state with
\* the exit lockset.
CallSucc(ps, ls) == [ps EXCEPT !.lockSet = ls]

\* walkFunction has returned to doCall: one successor state per exit lockset.
CallReturn ==
    /\ Running /\ ctl # <<>> /\ Top.k = "call" /\ retv.valid
    /\ \E order \in Perms(DOMAIN retv.val) :
         ctl' = [ctl EXCEPT ![Len(ctl)] =
                   [@ EXCEPT !.newps = @ \o [i \in 1..Len(order) |->
                                               CallSucc(Top.cur, retv.val[order[i]])],
                             !.fi = @ + 1]]
    /\ retv' = NoRet
    /\ UNCHANGED <<sp, lockOrder, roots, rootSet, rootIdx, fns, stack, warnings, pc, cycles, others>>

\* All callees are done for the current path state: FlatMap adds the results
\* and moves on; after the last path state doCall returns.
CallNext ==
    /\ Running /\ ctl # <<>> /\ Top.k = "call" /\ ~retv.valid
    /\ Top.fi > Len(Top.fnsq)
    /\ LET out == PssAddAll(Top.out, Top.newps, 1)
           n == Len(ctl)
       IN  IF Top.iter # <<>>
           THEN /\ ctl' = [ctl EXCEPT ![n] = [@ EXCEPT !.out = out, !.cur = Head(Top.iter),
                                                     !.iter = Tail(Top.iter), !.fi = 1,
                                                     !.newps = <<>>]]
                /\ stack' = stack
           ELSE /\ ctl' = [Pop(ctl) EXCEPT ![n - 1] = [@ EXCEPT !.set = out, !.pc = @ + 1]]
                /\ stack' = Parent(stack)
    /\ UNCHANGED <<sp, lockOrder, roots, rootSet, rootIdx, fns, warnings, retv, pc, cycles, others>>

\* ------------------------------------------------------------ specification
Next ==
    \/ RootCall
    \/ RootReturn
    \/ Report
    \/ Overflow
    \/ WfReturn
    \/ BlockEnter
    \/ BlockInstr
    \/ BlockSuccs
    \/ BlockNext
    \/ CallFn
    \/ CallReturn
    \/ CallNext

Spec == Init /\ [][Next]_vars
\* The analyzer is one goroutine: while a step is possible one is taken.  The
\* roots are those that are also given together.
FairInit == Init /\ roots[1] \in RootCandidates
FairSpec == FairInit /\ [][Next]_vars /\ WF_vars(Next)

\* ------------------------------------------------------------- a second run
\* The report by label, which does not depend on the order of interning.
ReportEdges == {<<sp[e.from + 1], sp[e.to + 1]>> : e \in lockOrder}
ReportCycles ==
    {{<<sp[c[i] + 1], sp[c[(i % Len(c)) + 1] + 1]>> : i \in DOMAIN c} : c \in cycles}

\* The analyzer is run once more on the same input.
Rerun ==
    /\ pc = "done" /\ ~prior.done
    /\ prior' = [roots |-> prior.roots, done |-> TRUE,
                 edges |-> ReportEdges, cycles |-> ReportCycles]
    /\ sp' = <<>> /\ lockOrder' = {}
    /\ roots' = prior.roots /\ rootSet' = Range(prior.roots) /\ rootIdx' = 1
    /\ fns' = [f \in {} |-> 0]
    /\ stack' = <<>> /\ warnings' = <<>> /\ ctl' = <<>> /\ retv' = NoRet
    /\ pc' = "main" /\ cycles' = {}
    /\ UNCHANGED <<strings, locksets, frames, tested>>

RerunNext ==
    \/ Next
    \/ Rerun

RerunSpec == Init /\ [][RerunNext]_vars

\* No analysis is under way: the operations are called directly.
ApiInit ==
    /\ sp = <<>> /\ lockOrder = {}
    /\ roots = <<>> /\ rootSet = {} /\ rootIdx = 1
    /\ fns = [f \in {} |-> 0]
    /\ stack = <<>> /\ warnings = <<>> /\ ctl = <<>> /\ retv = NoRet
    /\ pc = "api" /\ cycles = {}
    /\ prior = NoPrior(<<>>)
    /\ Idle

\* --------------------------------------------------------- StringSpace.Intern
\* id = sp.Intern(str)
StrIntern ==
    /\ pc = "api"
    /\ \E str \in Strs :
          LET r == MapIntern(strings.m, strings.s, str)
          IN  strings' = [m |-> r.m, s |-> r.s, str |-> str, id |-> r.id,
                          seen |-> IF str \in Range(strings.seen) THEN strings.seen
                                   ELSE Append(strings.seen, str)]
    /\ UNCHANGED <<walk, prior, locksets, frames, tested>>

StringNext ==
    \/ StrIntern

StringSpec == ApiInit /\ [][StringNext]_vars

\* ---------------------------------------------- StackFrame.Extend and Intern
RECURSIVE SortSet(_)
SortSet(S) ==
    IF S = {} THEN <<>>
    ELSE LET lo == CHOOSE x \in S : \A y \in S : x <= y
         IN  <<lo>> \o SortSet(S \ {lo})
RECURSIVE Chain(_, _)
Chain(h, sf) == IF sf = Nil THEN <<>> ELSE <<sf>> \o Chain(h, h[sf].parent)
RECURSIVE Chains(_, _)
Chains(h, ptrs) == IF ptrs = <<>> THEN <<>> ELSE Chain(h, Head(ptrs)) \o Chains(h, Tail(ptrs))
RECURSIVE InternedFrom(_, _, _)
InternedFrom(h, m, q) ==
    IF q > Len(StackSeqs) THEN <<>>
    ELSE SortSet({m[k] : k \in {k \in DOMAIN m : HeapFlatten(h, m[k]) = StackSeqs[q]}})
            \o InternedFrom(h, m, q + 1)
\* The frames in reach: from the references, then from the map (its values
\* and the parents in its keys), the map in the order of StackSeqs.
Live(h, m, refs) ==
    Chains(h, [i \in 1..Len(FrameSlots) |-> refs[FrameSlots[i]]]
               \o InternedFrom(h, m, 1)
               \o SortSet({k[1] : k \in DOMAIN m} \cup {m[k] : k \in DOMAIN m}))
\* Frames out of reach are collected and the pointers renumbered in the
\* order of Live.
Rank(live, sf) ==
    IF sf = Nil THEN Nil
    ELSE LET first == CHOOSE j \in 1..Len(live) :
                         live[j] = sf /\ \A i \in 1..(j - 1) : live[i] # sf
         IN  Cardinality({live[j] : j \in 1..first})
Collected(h, m, refs, seen) ==
    LET live == Live(h, m, refs)
        at(i) == CHOOSE sf \in Range(live) : Rank(live, sf) = i
    IN  [objs |-> [i \in 1..Cardinality(Range(live)) |->
                      [parent |-> Rank(live, h[at(i)].parent), call |-> h[at(i)].call]],
         interned |-> [k \in {<<Rank(live, j[1]), j[2]>> : j \in DOMAIN m} |->
                          Rank(live, m[CHOOSE j \in DOMAIN m : <<Rank(live, j[1]), j[2]>> = k])],
         refs |-> [x \in Range(FrameSlots) |-> Rank(live, refs[x])],
         call |-> seen]

FrFrame == UNCHANGED <<walk, prior, strings, locksets, tested>>
FrReady == pc = "api" /\ frames.call = NoSeen
FrRef(y) == frames.refs[y]
IsInterned(sf) == sf = Nil \/ sf \in {frames.interned[k] : k \in DOMAIN frames.interned}

\* x = y.Extend(call)
FrExtend ==
    /\ FrReady
    /\ \E x, y \in Range(FrameSlots), call \in Calls :
          LET e == HeapExtend(frames.objs, FrRef(y), call)
          IN  /\ HeapFlatten(e.objs, e.out) \in Range(StackSeqs)
              /\ frames' = Collected(e.objs, frames.interned,
                                     [frames.refs EXCEPT ![x] = e.out],
                                     [NoSeen EXCEPT !.op = "Extend",
                                                    !.a = HeapFlatten(e.objs, e.out)])
    /\ FrFrame

\* x = y.Intern()
FrIntern ==
    /\ FrReady
    /\ \E x, y \in Range(FrameSlots) :
          LET r == HeapIntern(frames.objs, frames.interned, FrRef(y))
          IN  frames' = Collected(r.objs, r.interned, [frames.refs EXCEPT ![x] = r.out],
                                  [NoSeen EXCEPT !.op = "Intern",
                                                 !.a = HeapFlatten(frames.objs, FrRef(y)),
                                                 !.aCanon = IsInterned(FrRef(y)),
                                                 !.kept = HeapFlatten(r.objs, r.out)
                                                            = HeapFlatten(frames.objs, FrRef(y))])
    /\ FrFrame

\* p = y.Intern(); q = z.Intern(); p == q; p.Intern() == p
FrCompare ==
    /\ FrReady
    /\ \E y, z \in Range(FrameSlots) :
          LET p == HeapIntern(frames.objs, frames.interned, FrRef(y))
              q == HeapIntern(p.objs, p.interned, FrRef(z))
              t == HeapIntern(q.objs, q.interned, p.out)
          IN  frames' = Collected(t.objs, t.interned, frames.refs,
                                  [op |-> "Compare",
                                   a |-> HeapFlatten(frames.objs, FrRef(y)),
                                   b |-> HeapFlatten(frames.objs, FrRef(z)),
                                   aCanon |-> IsInterned(FrRef(y)),
                                   bCanon |-> IsInterned(FrRef(z)),
                                   same |-> p.out = q.out,
                                   again |-> t.out = p.out,
                                   kept |-> HeapFlatten(p.objs, p.out)
                                              = HeapFlatten(frames.objs, FrRef(y))])
    /\ FrFrame

\* The caller goes on after a call.
FrReturn ==
    /\ pc = "api" /\ frames.call # NoSeen
    /\ frames' = [frames EXCEPT !.call = NoSeen]
    /\ FrFrame

FrameNext ==
    \/ FrExtend
    \/ FrIntern
    \/ FrCompare
    \/ FrReturn

FrameSpec == ApiInit /\ [][FrameNext]_vars

\* ------------------------------------------------ StackFrame.TrimCommonPrefix
\* The stacks handed to TrimCommonPrefix: a run of one recursive call, as
\* deep as the buffer is long or MaxOver frames off it, or at most MaxOver
\* frames deep, and then up to two other calls.
MaxOver == 1
Depths == (0..MaxOver) \cup ((BufLen - MaxOver)..(BufLen + MaxOver))
Tails ==
    {<<>>, << <<"g", 1, 1>> >>, << <<"g", 1, 2>> >>,
     << <<"g", 1, 1>>, <<"g", 1, 2>> >>, << <<"g", 1, 2>>, <<"g", 1, 1>> >>}
RunOf(n) == [i \in 1..n |-> <<"f", 1, 1>>]

TestFrame == UNCHANGED <<walk, prior, strings, locksets, frames>>
TestReady == pc = "api" /\ tested = NoTest

\* ta, tb = sa.TrimCommonPrefix(sb)
TrimCall ==
    /\ TestReady
    /\ \E n, m \in Depths, ta, tb \in Tails :
          LET a == HeapExtendAll(<<>>, Nil, RunOf(n) \o ta)
              b == HeapExtendAll(a.objs, Nil, RunOf(m) \o tb)
              r == HeapTrimCommonPrefix(b.objs, a.out, b.out)
          IN  tested' = [op |-> "Trim",
                         sa |-> HeapFlatten(b.objs, a.out), sb |-> HeapFlatten(b.objs, b.out),
                         ta |-> HeapFlatten(r.objs, r.a), tb |-> HeapFlatten(r.objs, r.b),
                         kept |-> SubSeq(r.objs, 1, Len(b.objs)) = b.objs]
    /\ TestFrame

\* The caller goes on after a call.
TestReturn ==
    /\ pc = "api" /\ tested # NoTest
    /\ tested' = NoTest
    /\ TestFrame

TrimNext ==
    \/ TrimCall
    \/ TestReturn

TrimSpec == ApiInit /\ [][TrimNext]_vars

\* ------------------------------------------------------------ LockOrder.add
\* Up to MaxAdds calls of add on one LockOrder, for the class pairs 0 -> 1 and
\* 0 -> 0 and stack pairs of which three are equal after trimming.
MaxAdds == 4
OrderClasses == {<<0, 1>>, <<0, 0>>}
OrderStacks ==
    LET A == <<"d", 1, 2>>
        B == <<"f", 1, 1>>
        C == <<"f", 1, 2>>
        D == <<"m", 1, 1>>
    IN  {<< <<A, B>>, <<A, C>> >>, << <<D, A, B>>, <<D, A, C>> >>, << <<B>>, <<C>> >>,
         << <<A, B>>, <<D, C>> >>}
OrderAdd ==
    /\ pc = "api" /\ tested.op \in {"", "Order"}
    /\ LET cur == IF tested = NoTest
                  THEN [op |-> "Order", lo |-> NewLockOrder, added |-> {}, n |-> 0]
                  ELSE tested
       IN  /\ cur.n < MaxAdds
           /\ \E c \in OrderClasses, st \in OrderStacks :
                 tested' = [op |-> "Order",
                            lo |-> LockOrderAdd(cur.lo, c[1], c[2], st[1], st[2]),
                            added |-> cur.added \cup {<<c, st>>},
                            n |-> cur.n + 1]
    /\ TestFrame
OrderNext == OrderAdd
OrderSpec == ApiInit /\ [][OrderNext]_vars

\* ------------------------------------------------------- LockOrder.FindCycles
\* Up to MaxAdds edges between the classes 0, 1 and 2, each with one of two
\* witnesses (parallel edges), and FindCycles of the resulting graph.
CycleClasses == {0, 1, 2}
CycleStacks ==
    {<< << <<"f", 1, 1>> >>, << <<"f", 1, 2>> >> >>,
     << << <<"g", 1, 1>> >>, << <<"g", 1, 2>> >> >>}
CycleAdd ==
    /\ pc = "api" /\ tested.op \in {"", "Cycles"}
    /\ LET cur == IF tested = NoTest THEN {} ELSE tested.lo
       IN  /\ Cardinality(cur) < MaxAdds
           /\ \E from, to \in CycleClasses, st \in CycleStacks :
                 LET lo == cur \cup {Edge(from, to, st[1], st[2])}
                 IN  /\ lo # cur
                     /\ tested' = [op |-> "Cycles", lo |-> lo, out |-> FindCycles(lo)]
    /\ TestFrame
CycleNext == CycleAdd
CycleSpec == ApiInit /\ [][CycleNext]_vars

\* ---------------------------------------------------- PathStateSet.MapInPlace
\* The path states MapInPlace is tried on: one block whose mask is {v}, the
\* lockset empty or holding class 0 with either of two stacks, and v and u
\* bound to true or not bound.  Sets of up to MaxStates of them are built by
\* Add.
MaxStates == 3
MapLockSets ==
    {NewLockSet, SetBit(NewLockSet, 0, <<>>), SetBit(NewLockSet, 0, << <<"f", 1, 1>> >>)}
MapVals == {[vals |-> [x \in bound |-> "T"], heap |-> <<>>] : bound \in SUBSET {"v", "u"}}
MapStates == {PathState(1, ls, vs, {"v"}) : ls \in MapLockSets, vs \in MapVals}
MapLists ==
    {l \in UNION {[1..n -> MapStates] : n \in 1..MaxStates} :
        \A i, j \in DOMAIN l : l[i] = l[j] => i = j}
\* The functions f handed to MapInPlace: the identity, binding the masked
\* value v, binding the unmasked value u, and adding class 0 to the lockset.
MapFns == {"same", "bind v", "bind u", "lock"}
ApplyFn(f, ps) ==
    CASE f = "same"   -> ps
      [] f = "bind v" -> [ps EXCEPT !.vs = VsExtend(ps.vs, "v", "T")]
      [] f = "bind u" -> [ps EXCEPT !.vs = VsExtend(ps.vs, "u", "T")]
      [] f = "lock"   -> [ps EXCEPT !.lockSet =
                            IF 0 \in ps.lockSet.bits THEN ps.lockSet
                            ELSE SetBit(ps.lockSet, 0, <<>>)]

\* set.MapInPlace(f)
MapCall ==
    /\ TestReady
    /\ \E l \in MapLists, f \in MapFns :
          LET set == PssAddAll(NewPathStateSet, l, 1)
          IN  \E order \in Perms(DOMAIN set) :
                 tested' = [op |-> "Map", f |-> f, before |-> set,
                            after |-> MapInPlace(set, [ps \in PssElems(set) |-> ApplyFn(f, ps)],
                                                 order)]
    /\ TestFrame

MapNext ==
    \/ MapCall
    \/ TestReturn

MapSpec == ApiInit /\ [][MapNext]_vars

\* -------------------------------------------------- the LockSet operations
\* Objects no reference leads to are collected; the pointers are renumbered
\* in the order of the references.
Canon(refs) ==
    [x \in Range(Slots) |->
        LET first == CHOOSE j \in 1..Len(Slots) :
                        /\ refs[Slots[j]] = refs[x]
                        /\ \A i \in 1..(j - 1) : refs[Slots[i]] # refs[x]
        IN  Cardinality({refs[Slots[j]] : j \in 1..first})]
Compact(h, refs) ==
    [a \in 1..Cardinality({refs[x] : x \in Range(Slots)}) |->
        h[refs[CHOOSE x \in Range(Slots) : Canon(refs)[x] = a]]]

\* x = <the call>, which left the heap r.objs and returned r.out.
Assign(x, r, sp1, call) ==
    LET refs1 == [locksets.refs EXCEPT ![x] = r.out]
    IN  locksets' = [sp |-> sp1, objs |-> Compact(r.objs, refs1), refs |-> Canon(refs1),
                     call |-> call]
Ref(y) == locksets.refs[y]
LsFrame == UNCHANGED <<walk, prior, strings, frames, tested>>
\* The caller is between two calls.
LsReady == pc = "api" /\ locksets.call = NoCall

\* The caller goes on after a call.
LsReturn ==
    /\ pc = "api" /\ locksets.call # NoCall
    /\ locksets' = [locksets EXCEPT !.call = NoCall]
    /\ LsFrame

\* x = NewLockSet(sp)
LsNew ==
    /\ LsReady
    /\ \E x \in Range(Slots) :
          LET h == locksets.objs
              r == Heap(Append(h, NewLockSet), Len(h) + 1)
          IN  Assign(x, r, locksets.sp,
                     LsCall("NewLockSet", 0, 0, <<>>, <<>>, 0, r.out, <<>>, h, r.objs))
    /\ LsFrame

\* x = y.Plus(labels, stk)
LsPlus ==
    /\ LsReady
    /\ \E x, y \in Range(Slots), labels \in LabelLists, stk \in Stks :
          LET h == locksets.objs
              r == HeapPlus(h, Ref(y), labels, stk, locksets.sp)
          IN  Assign(x, r, InternAll(locksets.sp, labels, 1),
                     LsCall("Plus", Ref(y), 0, labels, stk, 0, r.out, <<>>, h, r.objs))
    /\ LsFrame

\* x = y.PlusLabel(label, stk)
LsPlusLabel ==
    /\ LsReady
    /\ \E x, y \in Range(Slots), labels \in {l \in LabelLists : Len(l) = 1}, stk \in Stks :
          LET h == locksets.objs
              r == HeapPlusLabel(h, Ref(y), labels[1], stk, locksets.sp)
          IN  Assign(x, r, InternSp(locksets.sp, labels[1]),
                     LsCall("PlusLabel", Ref(y), 0, labels, stk, 0, r.out, <<>>, h, r.objs))
    /\ LsFrame

\* x = y.Minus(labels)
LsMinus ==
    /\ LsReady
    /\ \E x, y \in Range(Slots), labels \in LabelLists :
          LET h == locksets.objs
              r == HeapMinus(h, Ref(y), labels, locksets.sp)
          IN  Assign(x, r, InternAll(locksets.sp, labels, 1),
                     LsCall("Minus", Ref(y), 0, labels, <<>>, 0, r.out, <<>>, h, r.objs))
    /\ LsFrame

\* x = y.MinusLabel(label)
LsMinusLabel ==
    /\ LsReady
    /\ \E x, y \in Range(Slots), labels \in {l \in LabelLists : Len(l) = 1} :
          LET h == locksets.objs
              r == HeapMinusLabel(h, Ref(y), labels[1], locksets.sp)
          IN  Assign(x, r, InternSp(locksets.sp, labels[1]),
                     LsCall("MinusLabel", Ref(y), 0, labels, <<>>, 0, r.out, <<>>, h, r.objs))
    /\ LsFrame

\* x = y.Union(z)
LsUnion ==
    /\ LsReady
    /\ \E x, y, z \in Range(Slots) :
          LET h == locksets.objs
              r == HeapUnion(h, Ref(y), Ref(z))
          IN  Assign(x, r, locksets.sp,
                     LsCall("Union", Ref(y), Ref(z), <<>>, <<>>, 0, r.out, <<>>, h, r.objs))
    /\ LsFrame

\* x = y.Plus(labels, stk).Minus(labels)
LsPlusMinus ==
    /\ LsReady
    /\ \E x, y \in Range(Slots), labels \in LabelLists, stk \in Stks :
          LET h == locksets.objs
              sp1 == InternAll(locksets.sp, labels, 1)
              r == HeapPlus(h, Ref(y), labels, stk, locksets.sp)
              m == HeapMinus(r.objs, r.out, labels, sp1)
          IN  Assign(x, m, sp1,
                     LsCall("PlusMinus", Ref(y), 0, labels, stk, r.out, m.out, <<>>, h, m.objs))
    /\ LsFrame

\* y.Key() == z.Key() and y.Equal(z)
LsCompare ==
    /\ LsReady
    /\ \E y, z \in Range(Slots) :
          LET h == locksets.objs
          IN  locksets' = [locksets EXCEPT !.call =
                  LsCall("Compare", Ref(y), Ref(z), <<>>, <<>>, 0, 0,
                         <<LockSetKey(h[Ref(y)]) = LockSetKey(h[Ref(z)]),
                           LockSetEqual(h[Ref(y)], h[Ref(z)])>>, h, h)]
    /\ LsFrame

LockSetNext ==
    \/ LsNew
    \/ LsPlus
    \/ LsPlusLabel
    \/ LsMinus
    \/ LsMinusLabel
    \/ LsUnion
    \/ LsPlusMinus
    \/ LsCompare
    \/ LsReturn

LockSetSpec == ApiInit /\ [][LockSetNext]_vars

\* The analyzer and the direct calls side by side.
LockSetWalkNext ==
    \/ Next
    \/ LockSetNext

LockSetWalkSpec == (Init \/ ApiInit) /\ [][LockSetWalkNext]_vars

\* ===================================================== paths of the program
\* The paths of the analyzed program itself, without the walker's caches:
\* what the claims about the walker's results are measured against.  A lock
\* class is named by its label here; a lockset is a function label -> stack.
PathFuel == 7

ClassLabel(id) == sp[id + 1]
LsView(ls) == [l \in {ClassLabel(id) : id \in ls.bits} |-> StackAt(ls, Intern(sp, l))]
EdgeView(e) ==
    [from |-> ClassLabel(e.from), to |-> ClassLabel(e.to),
     fromStack |-> e.fromStack, toStack |-> e.toStack]
LabelEdges == {<<ClassLabel(e.from), ClassLabel(e.to)>> : e \in lockOrder}

\* s is p followed by t.
IsPrefixSplit(p, t, s) == Len(s) = Len(p) + Len(t) /\ s = p \o t
LongestCommon(sa, sb) ==
    LET ns == {n \in 0..Len(sa) : n <= Len(sb) /\ SubSeq(sa, 1, n) = SubSeq(sb, 1, n)}
    IN  CHOOSE n \in ns : \A k \in ns : k <= n
PathEdge(h, c, sa, sb) ==
    LET n == LongestCommon(sa, sb)
    IN  [from |-> h, to |-> c,
         fromStack |-> SubSeq(sa, n + 1, Len(sa)), toStack |-> SubSeq(sb, n + 1, Len(sb))]

PathPlus(ls, labels, stk) ==
    [l \in DOMAIN ls \cup Range(labels) |-> IF l \in DOMAIN ls THEN ls[l] ELSE stk]
PathMinus(ls, labels) == [l \in DOMAIN ls \ Range(labels) |-> ls[l]]

NoPaths == [exits |-> {}, edges |-> {}]
MergePaths(rs) ==
    [exits |-> UNION {r.exits : r \in rs}, edges |-> UNION {r.edges : r \in rs}]

\* The phis at the start of b2 read, all at once, the values on the edge b -> b2.
PhiIndex(f, b, b2) == CHOOSE i \in 1..Len(Preds(f, b2)) : Preds(f, b2)[i] = b
PathPhis(vs, f, b, b2) ==
    LET phis == {k \in 1..Len(Prog[f][b2].instrs) :
                    \A j \in 1..k : InstrAt(f, b2, j).op = "phi"}
        in(k) == VsGet(vs, InstrAt(f, b2, k).edges[PhiIndex(f, b, b2)])
        bound == {k \in phis : in(k) # "nil"}
        unbound == {InstrAt(f, b2, k).val : k \in phis \ bound}
    IN  [vals |-> [v \in (DOMAIN vs.vals \ unbound) \cup {InstrAt(f, b2, k).val : k \in bound} |->
                    IF \E k \in bound : InstrAt(f, b2, k).val = v
                    THEN in(CHOOSE k \in bound : InstrAt(f, b2, k).val = v)
                    ELSE vs.vals[v]],
         heap |-> vs.heap]

\* The exit locksets and the order edges of all paths that start before
\* instruction i of block b of f with lockset ls, value state vs and call
\* stack stk; cond is the condition of the block's If once it is passed.
RECURSIVE PathsFrom(_, _, _, _, _, _, _, _)
PathsFrom(f, b, i, ls, vs, cond, stk, fuel) ==
    IF fuel = 0 THEN NoPaths
    ELSE IF i > Len(Prog[f][b].instrs)
    THEN LET succs == Prog[f][b].succs
             x == VsGet(vs, cond)
             taken == IF cond # "" /\ x # "nil"
                      THEN (IF x = "T" THEN {1} ELSE {2})
                      ELSE 1..Len(succs)
         IN  MergePaths({PathsFrom(f, succs[j], 1, ls,
                            PathPhis(IF cond # ""
                                     THEN VsExtend(vs, cond, IF j = 1 THEN "T" ELSE "F")
                                     ELSE vs, f, b, succs[j]),
                            "", stk, fuel - 1) : j \in taken})
    ELSE LET ins == InstrAt(f, b, i)
             vs1 == VsDo(vs, ins)
             stk2 == Append(stk, <<f, b, i>>)
             labels == PointsTo(<<f, b, i>>)
             after(ls2) == PathsFrom(f, b, i + 1, ls2, vs1, cond, stk, fuel)
             call(fn) ==
                CASE fn = "lock" ->
                        LET r == after(PathPlus(ls, labels, stk2))
                        IN  [exits |-> r.exits,
                             edges |-> r.edges \cup
                                {PathEdge(h, labels[k], ls[h], stk2) :
                                    h \in DOMAIN ls, k \in 1..Len(labels)}]
                  [] fn = "unlock" -> after(PathMinus(ls, labels))
                  [] fn = "gopanic" -> NoPaths
                  [] OTHER ->
                        IF Prog[fn] = <<>> THEN after(ls)
                        ELSE LET callee == PathsFrom(fn, 1, 1, ls, VsLimitToHeap(vs1), "",
                                                     stk2, fuel - 1)
                                 rest == MergePaths({after(ls2) : ls2 \in callee.exits})
                             IN  [exits |-> rest.exits, edges |-> callee.edges \cup rest.edges]
         IN  CASE ins.op = "if" -> PathsFrom(f, b, i + 1, ls, vs1, ins.arg, stk, fuel)
               [] ins.op = "ret" -> [exits |-> {ls}, edges |-> {}]
               [] ins.op = "call" /\ Len(Callees(f, ins)) > 0 ->
                        MergePaths({call(Callees(f, ins)[k]) : k \in 1..Len(Callees(f, ins))})
               [] OTHER -> after(ls)

\* The exit locksets of a call of fn.
PathExits(fn, ls, vs, stk) ==
    IF Prog[fn] = <<>> THEN {ls}
    ELSE PathsFrom(fn, 1, 1, ls, vs, "", stk, PathFuel).exits

\* The call of walkFunction that has just returned retv: callee, entry state.
ReturnedFn == IF Top.k = "root" THEN Top.f ELSE Top.fnsq[Top.fi]
ReturnedPs ==
    IF Top.k = "root" THEN PathState(0, NewLockSet, InitialVs, {})
    ELSE PathState(0, Top.cur.lockSet, VsLimitToHeap(Top.cur.vs), {})

\* ================================================================== claims
\* The analysis has reported and its root list is rs.
ReportedExactly(rs) == pc = "done" /\ roots = rs

\* doCall is about to run the handler fn for the current path state, and does.
HandlerCall(fn) ==
    /\ ctl # <<>> /\ Top.k = "call" /\ ~retv.valid
    /\ Top.fi <= Len(Top.fnsq) /\ Top.fnsq[Top.fi] = fn
    /\ ctl' # ctl
\* The path states that step has appended to newps.
NewPs == SubSeq(ctl'[Len(ctl)].newps, Len(Top.newps) + 1, Len(ctl'[Len(ctl)].newps))
\* The classes of the points-to set of the call's lock argument.
PointsToIds == {Intern(sp', l) : l \in Range(PointsTo(Top.site))}

\* C1, per step: a lock call on a path state with lockset H and points-to
\* set P adds the class edges H x P, H as it was before the call, and leaves
\* one successor state whose lockset is H union P; an unlock call adds no edge
\* and leaves H minus P.
C1_HandlerStep ==
    /\ HandlerCall("lock") =>
          LET H == Top.cur.lockSet.bits
          IN  /\ ClassEdges(lockOrder') = ClassEdges(lockOrder) \cup (H \X PointsToIds)
              /\ Len(NewPs) = 1
              /\ NewPs[1].lockSet.bits = H \cup PointsToIds
    /\ HandlerCall("unlock") =>
          LET H == Top.cur.lockSet.bits
          IN  /\ lockOrder' = lockOrder
              /\ Len(NewPs) = 1
              /\ NewPs[1].lockSet.bits = H \ PointsToIds
\* C1, the scenario: the single root f = lock(a); lock(b); unlock(b);
\* unlock(a) yields exactly the edge A->B and no cycle.
C1_StraightOrder ==
    ReportedExactly(<<"f">>) => LabelEdges = {<<"A", "B">>} /\ cycles = {}
\* C1: every lock call adds the edges from the lockset held before it to the
\* points-to set and only then extends the lockset, every unlock call removes
\* the points-to set, and root f alone gives one edge A->B and no cycle.
C1_LockEdgesThenPlus == [][C1_HandlerStep]_vars /\ [](C1_StraightOrder)
C1_Witness == ReportedExactly(<<"f">>) /\ LabelEdges = {<<"A", "B">>}

\* C2: with roots f and g the graph has exactly the class edges A->B and
\* B->A and one cycle, of length 2; and every root is walked from an empty
\* lockset.
C2_ReverseInSibling ==
    /\ (pc = "done" /\ Range(roots) = {"f", "g"}) =>
          /\ LabelEdges = {<<"A", "B">>, <<"B", "A">>}
          /\ Cardinality(cycles) = 1
          /\ \A c \in cycles : Len(c) = 2
    /\ (Len(ctl) >= 2 /\ ctl[1].k = "root") =>
          /\ ctl[2].k = "wf" /\ ctl[2].f = ctl[1].f
          /\ ctl[2].ps.lockSet = NewLockSet
C2_Witness ==
    pc = "done" /\ roots = <<"f", "g">> /\ cycles = {<<Intern(sp, "A"), Intern(sp, "B")>>}

\* C3, per step: a lock call leaves every class that is already held with
\* the stack recorded for it; when all of P is held the lockset is unchanged.
C3_HeldUnchanged ==
    HandlerCall("lock") =>
        /\ \A h \in Top.cur.lockSet.bits :
              StackAt(NewPs[1].lockSet, h) = StackAt(Top.cur.lockSet, h)
        /\ PointsToIds \subseteq Top.cur.lockSet.bits => NewPs[1].lockSet = Top.cur.lockSet
\* C3, the scenario: h = lock(x); lock(y), both pointing to L.
C3_SelfAliasScenario ==
    ReportedExactly(<<"h">>) =>
        /\ lockOrder = {[from |-> Intern(sp, "L"), to |-> Intern(sp, "L"),
                         fromStack |-> <<<<"h", 1, 1>>>>, toStack |-> <<<<"h", 1, 2>>>>]}
        /\ cycles = {<<Intern(sp, "L")>>}
\* C3: locking a class that is already held adds the self-edge with one
\* witness, leaves the lockset and its recorded stack unchanged, and is
\* reported as a cycle of length 1.
C3_SelfAlias == [][C3_HeldUnchanged]_vars /\ [](C3_SelfAliasScenario)
C3_Witness ==
    ReportedExactly(<<"h">>) /\ Cardinality(lockOrder) = 1 /\ \E c \in cycles : Len(c) = 1

\* C4: the lock-order graph changes only in a lock call, and every edge
\* (a, b, sa, sb) it gains has a in the lockset of the path state being
\* processed and b in the points-to set of the call, sa and sb being the stack
\* recorded for a and the current call stack (which ends at the lock call)
\* with one common prefix removed from both.
C4_EdgeStep ==
    lockOrder' # lockOrder =>
        /\ HandlerCall("lock")
        /\ lockOrder \subseteq lockOrder'
        /\ stack # <<>> /\ stack[Len(stack)] = Top.site
        /\ \A e \in lockOrder' \ lockOrder :
              /\ e.from \in Top.cur.lockSet.bits
              /\ e.to \in PointsToIds
              /\ \E n \in 0..Len(stack) :
                    /\ IsPrefixSplit(SubSeq(stack, 1, n), e.fromStack,
                                     StackAt(Top.cur.lockSet, e.from))
                    /\ IsPrefixSplit(SubSeq(stack, 1, n), e.toStack, stack)
C4_EdgesOnlyFromLock == [][C4_EdgeStep]_vars
\* An edge whose stacks had a common prefix: f's A->B when f is called from d.
C4_Witness ==
    /\ roots = <<"d">>
    /\ [from |-> Intern(sp, "A"), to |-> Intern(sp, "B"),
        fromStack |-> <<<<"f", 1, 1>>>>, toStack |-> <<<<"f", 1, 2>>>>] \in lockOrder

\* C5: the walk terminates for every finite input: in particular the nesting
\* of the analyzer's own calls never reaches MaxDepth, recursion being cut by
\* the memo on the second entry with a given path state.
C5_WalkTerminates == pc # "overflow"

\* A walkFunction call that walked f returns.
WalkCompletes == ctl # <<>> /\ Top.k = "wf" /\ ctl' = Pop(ctl)
\* C6: a walk of f from ps returns exactly the locksets held at a Return on
\* some path through f from ps, calls followed; the library never trips the
\* explosion guard.
C6_WalkStep ==
    (WalkCompletes /\ \A i \in 1..Len(warnings) : warnings[i].kind # "too many states") =>
        /\ retv'.valid
        /\ {LsView(l) : l \in LssSets(retv'.val)}
              = PathExits(Top.f, LsView(Top.ps.lockSet), Top.ps.vs, stack)
C6_ExactExits == [][C6_WalkStep]_vars

\* C7: a path state entering a block that is Equal to one in the visited set
\* (same block, Equal locksets, value states equal at the block's mask and on
\* the heap) continues to the same exit locksets and the same order edges as
\* the visited one.
C7_MaskedEqualSameContinuation ==
    (ctl # <<>> /\ Top.k = "wb" /\ Top.phase = "enter") =>
        LET ps == [Top.enter EXCEPT !.mask = fns[Top.f].ifDeps[Top.b]]
            Cont(q) == PathsFrom(Top.f, Top.b, 1, LsView(q.lockSet), q.vs, "", stack, PathFuel)
        IN  \A q \in PssElems(ctl[WfIdx].blockCache) :
                (/\ q.block = ps.block
                 /\ LockSetEqual(q.lockSet, ps.lockSet)
                 /\ VsEqualAt(q.vs, ps.vs, ps.mask)) => Cont(q) = Cont(ps)

\* walkBlock has run the block's instructions and lines up the successors.
SuccsStep ==
    /\ ctl # <<>> /\ Top.k = "wb" /\ Top.phase = "instrs"
    /\ Len(ctl') = Len(ctl) /\ ctl'[Len(ctl)].phase = "succs"
\* C8, per step: from a path state in which the If's condition is a known
\* boolean only the successor for that boolean is walked, and from any other
\* path state every successor is.
C8_SuccsStep ==
    SuccsStep =>
        LET succs == Prog[Top.f][Top.b].succs
            x(ps) == IF Top.ifCond = "" THEN "nil" ELSE VsGet(ps.vs, Top.ifCond)
            walked(ps) == CASE x(ps) = "T" -> {succs[1]}
                            [] x(ps) = "F" -> {succs[2]}
                            [] OTHER -> Range(succs)
        IN  {<<t.lockSet, t.block>> : t \in Range(ctl'[Len(ctl)].todo)}
              = UNION {{<<ps.lockSet, b2>> : b2 \in walked(ps)} : ps \in PssElems(Top.set)}
\* C8, the scenario: if true { lock(a) } else { lock(b) }; lock(c) gives A->C
\* and never B->C; if false gives B->C and never A->C; with an unknown
\* condition it gives both.
C8_Scenario ==
    /\ ReportedExactly(<<"br">>) => LabelEdges = {<<"A", "C">>}
    /\ ReportedExactly(<<"bf">>) => LabelEdges = {<<"B", "C">>}
    /\ ReportedExactly(<<"bu">>) => LabelEdges = {<<"A", "C">>, <<"B", "C">>}
\* C8: a condition known to be a boolean constant prunes the walk to the
\* successor for that constant; an unknown condition walks both successors.
C8_BranchPruning == [][C8_SuccsStep]_vars /\ [](C8_Scenario)
C8_Witness == ReportedExactly(<<"br">>) /\ <<"A", "C">> \in LabelEdges

\* walkBlock processes a Go instruction.
GoStep ==
    /\ ctl # <<>> /\ Top.k = "wb" /\ Top.phase = "instrs"
    /\ Top.pc <= Len(Prog[Top.f][Top.b].instrs)
    /\ InstrAt(Top.f, Top.b, Top.pc).op = "go"
    /\ ctl' # ctl
\* The path state every root is walked from.
RootPs == PathState(0, NewLockSet, InitialVs, {})
\* C9, per step: a Go instruction appends its callees to the roots and
\* changes neither the path states, nor the graph, nor the call stack, and
\* starts no walk.
C9_GoStep ==
    GoStep =>
        LET cs == Range(Callees(Top.f, InstrAt(Top.f, Top.b, Top.pc)))
        IN  /\ Range(roots') = Range(roots) \cup cs
            /\ SubSeq(roots', 1, Len(roots)) = roots
            /\ lockOrder' = lockOrder /\ stack' = stack
            /\ Len(ctl') = Len(ctl)
            /\ PssElems(ctl'[Len(ctl)].set) = PssElems(Top.set)
\* C9, at the report: every root, launched ones included, has been walked
\* from the empty lockset; r = lock(b); go w(); unlock(b) with w = lock(a);
\* lock(c); ... gets w's edge A->C and no edge from B.
C9_Launched ==
    /\ pc = "done" =>
          \A i \in 1..Len(roots) :
             /\ roots[i] \in DOMAIN fns
             /\ PsmHas(fns[roots[i]].exitLockSets, RootPs)
    /\ (pc = "done" /\ roots[1] = "r" /\ Len(roots) <= 2) =>
          /\ roots = <<"r", "w">>
          /\ lockOrder = {[from |-> Intern(sp, "A"), to |-> Intern(sp, "C"),
                           fromStack |-> <<<<"w", 1, 1>>>>, toStack |-> <<<<"w", 1, 2>>>>]}
LockOrderNodes == Range(sp)
RootWarning(f) == Warn("locks at return from root", f)
\* main takes the result of walking a root.
RootReturnStep == ctl # <<>> /\ Top.k = "root" /\ retv.valid /\ ctl' # ctl
\* C10, per step: the root is warned about exactly when one of its exit
\* locksets holds a lock, and main goes on to the next root.
C10_RootStep ==
    RootReturnStep =>
        LET new == SubSeq(warnings', Len(warnings) + 1, Len(warnings'))
        IN  /\ SubSeq(warnings', 1, Len(warnings)) = warnings
            /\ \A i \in 1..Len(new) : new[i] = RootWarning(Top.f)
            /\ new # <<>> <=> \E ls \in LssSets(retv.val) : ls.bits # {}
            /\ rootIdx' = rootIdx + 1 /\ pc' = "main" /\ ctl' = <<>>
\* C10, the scenario: u = lock(a) is warned about, f is not, the roots after
\* u are walked, the cycles are reported and A is a node.
C10_Scenario ==
    /\ ReportedExactly(<<"u">>) => warnings = <<RootWarning("u")>> /\ "A" \in LockOrderNodes
    /\ ReportedExactly(<<"f">>) => warnings = <<>>
    /\ (Len(roots) = 2 /\ roots[1] = "u" /\ roots[2] = "f" /\ rootIdx > 1) =>
          RootWarning("u") \in Range(warnings)
    /\ ReportedExactly(<<"u", "f">>) =>
          LabelEdges = {<<"A", "B">>} /\ warnings = <<RootWarning("u")>>
C11_EmptyStep ==
    (HandlerCall("lock") /\ PointsTo(Top.site) = <<>>) =>
        /\ lockOrder' = lockOrder
        /\ sp' = sp
        /\ NewPs = <<Top.cur>>
C11_EmptyPointsTo == [][C11_EmptyStep]_vars
\* e = lock(a); lock(n); ... with nothing in pts(n): the lock of n, with A
\* held, is behind and the graph is empty.
C11_Witness ==
    /\ roots = <<"e">> /\ ctl # <<>> /\ Top.k = "call" /\ Top.site = <<"e", 1, 2>>
    /\ Len(Top.newps) = 1 /\ Top.cur.lockSet.bits # {}
    /\ lockOrder = {}

\* C12: a second run on the same input ends with the same lock-order edges
\* and the same cycles as the first, whatever orders the maps were ranged
\* over in either.
C12_SameReport ==
    (pc = "done" /\ prior.done) => ReportEdges = prior.edges /\ ReportCycles = prior.cycles

\* The locksets of the path states an analysis holds: in the activations, in
\* the block caches, in the exit sets and in the result being returned.
FrameLockSets(fr) ==
    CASE fr.k = "wf" ->
            {fr.ps.lockSet} \cup {q.lockSet : q \in PssElems(fr.blockCache)}
                \cup LssSets(fr.exits)
      [] fr.k = "wb" ->
            {fr.enter.lockSet} \cup {q.lockSet : q \in PssElems(fr.set)}
                \cup {q.lockSet : q \in Range(fr.todo)}
      [] fr.k = "call" ->
            {fr.cur.lockSet} \cup {q.lockSet : q \in Range(fr.iter)}
                \cup {q.lockSet : q \in Range(fr.newps)}
                \cup {q.lockSet : q \in PssElems(fr.out)}
      [] OTHER -> {}
WalkLockSets == UNION {FrameLockSets(ctl[i]) : i \in DOMAIN ctl} \cup LssSets(retv.val)
Integral(set) == set.bits = DOMAIN set.stacks
Called(ops) == locksets.call.op \in ops
Was(a) == locksets.call.before[a]
Now(a) == locksets.call.after[a]
CallIds == {Intern(locksets.sp, l) : l \in Range(locksets.call.labels)}

\* C13: in every LockSet made from NewLockSet by Plus, PlusLabel, Minus,
\* MinusLabel and Union, and in the lockset of every path state of a walk,
\* the ids with a bit set are the ids with an entry in the stacks map.
C13_BitsIffStacks ==
    /\ \A a \in DOMAIN locksets.objs : Integral(locksets.objs[a])
    /\ \A a \in DOMAIN locksets.call.after : Integral(Now(a))
    /\ \A set \in WalkLockSets : Integral(set)
\* Minus has taken one class out of a set of two.
C13_Witness ==
    /\ Called({"Minus"}) /\ locksets.call.out # locksets.call.recv
    /\ Cardinality(Was(locksets.call.recv).bits) = 2
    /\ Cardinality(Now(locksets.call.out).bits) = 1

\* C14: ls.Plus(S, stk).Minus(S) is Equal to ls when no id of S is in ls.
C14_PlusMinus ==
    (Called({"PlusMinus"}) /\ CallIds \cap Was(locksets.call.recv).bits = {}) =>
        /\ LockSetEqual(Now(locksets.call.out), Was(locksets.call.recv))
        /\ LockSetEqual(Was(locksets.call.recv), Now(locksets.call.out))
\* Two classes were added to a set that holds none of them and taken out again.
C14_Witness ==
    /\ Called({"PlusMinus"}) /\ CallIds \cap Was(locksets.call.recv).bits = {}
    /\ Len(locksets.call.labels) = 2 /\ locksets.call.stk # <<>>
    /\ Now(locksets.call.mid).bits = CallIds
    /\ locksets.call.out # locksets.call.mid

\* C15: s.Union(o) holds the classes of s and of o; a class of s keeps the
\* stack s has for it, whatever it is, and a class only in o gets o's stack.
C15_UnionStacks ==
    Called({"Union"}) =>
        LET s == Was(locksets.call.recv)
            o == Was(locksets.call.arg)
            r == Now(locksets.call.out)
        IN  /\ r.bits = s.bits \cup o.bits
            /\ \A k \in r.bits :
                  StackAt(r, k) = IF k \in s.bits THEN StackAt(s, k) ELSE StackAt(o, k)

\* C16: Plus (and PlusLabel) returns the receiver itself exactly when every
\* label is already in the set; otherwise it returns a new set in which the
\* added classes have the stack passed and the others the stack they had.
C16_PlusResult ==
    Called({"Plus", "PlusLabel"}) =>
        LET was == Was(locksets.call.recv)
            out == locksets.call.out
        IN  /\ out = locksets.call.recv <=> CallIds \subseteq was.bits
            /\ out # locksets.call.recv => out \notin DOMAIN locksets.call.before
            /\ Now(out).bits = was.bits \cup CallIds
            /\ \A k \in Now(out).bits :
                  StackAt(Now(out), k) =
                      IF k \in was.bits THEN StackAt(was, k) ELSE locksets.call.stk
\* Plus of two labels, one held with another stack and one new.
C16_Witness ==
    /\ Called({"Plus"}) /\ locksets.call.out # locksets.call.recv
    /\ \E k \in CallIds \cap Was(locksets.call.recv).bits :
          StackAt(Was(locksets.call.recv), k) # locksets.call.stk
    /\ CallIds \ Was(locksets.call.recv).bits # {}

\* C17: no operation changes a LockSet that was there before the call.
C17_NoMutation ==
    \A a \in DOMAIN locksets.call.before : Now(a) = Was(a)
\* Union has made a new set out of two others.
C17_Witness ==
    /\ Called({"Union"}) /\ locksets.call.out \notin DOMAIN locksets.call.before
    /\ locksets.call.recv # locksets.call.arg
    /\ Was(locksets.call.recv).bits # {}

\* C18: two LockSets have the same Key() exactly when Equal holds of them.
C18_KeyIffEqual ==
    Called({"Compare"}) => locksets.call.res[1] = locksets.call.res[2]

\* C19: after any Intern calls on one StringSpace, two strings have the same
\* id exactly when they are the same string, an id once given never changes,
\* and the ids are 0, 1, 2, ... in the order of first mention.
C19_Ids ==
    /\ strings.str # "" => strings.id = strings.m[strings.str]
    /\ DOMAIN strings.m = Range(strings.seen)
    /\ \A x, y \in DOMAIN strings.m : strings.m[x] = strings.m[y] <=> x = y
    /\ \A i \in DOMAIN strings.seen : strings.m[strings.seen[i]] = i - 1
    /\ \A x \in DOMAIN strings.m : Intern(strings.s, x) = strings.m[x]
C19_Stable == \A x \in DOMAIN strings.m : strings'.m[x] = strings.m[x]
C19_InternIds == [][C19_Stable]_vars /\ []C19_Ids
\* A string is interned again after two others were interned after it.
C19_Witness ==
    /\ Len(strings.seen) = 3 /\ strings.str = strings.seen[1] /\ strings.id = 0
    /\ strings.m[strings.seen[3]] = 2

\* C20: after any Extend and Intern calls, a.Intern() and b.Intern() are the
\* same pointer exactly when a and b have the same call sequence, whether or
\* not they or their parents were interned before; Intern of an interned
\* pointer returns it, the interned frame has the call sequence of the frame
\* it was asked for, and the empty stack interns to nil.
C20_Canonical ==
    /\ frames.call.op = "Compare" =>
          /\ frames.call.same <=> frames.call.a = frames.call.b
          /\ frames.call.again
          /\ frames.call.kept
    /\ frames.call.op = "Intern" => frames.call.kept
    /\ HeapIntern(frames.objs, frames.interned, Nil).out = Nil
    /\ \A k \in DOMAIN frames.interned :
          HeapIntern(frames.objs, frames.interned, frames.interned[k]).out = frames.interned[k]
\* Two frames of the same two calls, one an interned pointer and one built on
\* a parent that is not interned, intern to the same pointer.
C20_Witness ==
    /\ frames.call.op = "Compare" /\ frames.call.same
    /\ Len(frames.call.a) = 2
    /\ ~frames.call.aCanon /\ frames.call.bCanon
    /\ \E x \in Range(FrameSlots) :
          /\ FrRef(x) # Nil /\ ~IsInterned(FrRef(x))
          /\ ~IsInterned(frames.objs[FrRef(x)].parent)

\* C21: TrimCommonPrefix(sa, sb) returns ta and tb such that, with p the
\* longest common outer-first prefix of the two call sequences, sa is p
\* followed by ta and sb is p followed by tb; ta and tb do not start with the
\* same call; this for stacks within and beyond the 64 entries of the buffer.
C21_TrimSplit ==
    tested.op = "Trim" =>
        LET p == SubSeq(tested.sa, 1, LongestCommon(tested.sa, tested.sb))
        IN  /\ IsPrefixSplit(p, tested.ta, tested.sa)
            /\ IsPrefixSplit(p, tested.tb, tested.sb)
            /\ tested.ta = <<>> \/ tested.tb = <<>> \/ tested.ta[1] # tested.tb[1]
            /\ tested.kept
\* Two stacks deeper than the buffer with a common prefix longer than it and
\* different calls after it.
C21_Witness ==
    /\ tested.op = "Trim"
    /\ LongestCommon(tested.sa, tested.sb) > BufLen
    /\ Len(tested.ta) = 2 /\ Len(tested.tb) = 1

\* C22: ls.Union(ls) is ls: the receiver itself is returned, and it is Equal
\* to what ls was.
C22_UnionSelf ==
    (Called({"Union"}) /\ locksets.call.arg = locksets.call.recv) =>
        /\ locksets.call.out = locksets.call.recv
        /\ LockSetEqual(Now(locksets.call.out), Was(locksets.call.recv))
        /\ LockSetEqual(Was(locksets.call.recv), Now(locksets.call.out))
\* A set of two classes with different stacks is united with itself.
C22_Witness ==
    /\ Called({"Union"}) /\ locksets.call.arg = locksets.call.recv
    /\ Cardinality(Was(locksets.call.recv).bits) = 2
    /\ \E j, k \in Was(locksets.call.recv).bits :
          StackAt(Was(locksets.call.recv), j) # StackAt(Was(locksets.call.recv), k)

\* A call of walkFunction is about to be made: by main for the next root, or
\* by doCall for a callee without a handler.
RootCallDue == pc = "main" /\ ctl = <<>> /\ rootIdx <= Len(roots)
WalkCallDue ==
    /\ pc = "main" /\ ctl # <<>> /\ Top.k = "call" /\ ~retv.valid
    /\ Top.fi <= Len(Top.fnsq) /\ Top.fnsq[Top.fi] \notin callHandlers
CalledFn == IF ctl = <<>> THEN roots[rootIdx] ELSE Top.fnsq[Top.fi]
CalledPs ==
    IF ctl = <<>> THEN RootPs
    ELSE PathState(0, Top.cur.lockSet, VsLimitToHeap(Top.cur.vs), {})
\* The memo of f has an entry for a path state Equal to ps.
Memoized(f, ps) ==
    f \in DOMAIN fns /\ Prog[f] # <<>> /\ PsmHas(fns[f].exitLockSets, ps)
\* A walk of (f, ps) has not returned yet.
InProgress(f, ps) ==
    \E i \in DOMAIN ctl : ctl[i].k = "wf" /\ ctl[i].f = f /\ PsEqual(ctl[i].ps, ps)
\* C23, per step: a call that finds an entry returns it, walks no block, adds
\* no edge and changes no memo; the entry of a walk in progress is empty, and
\* an empty result adds no successor state; a walk that returns stores the
\* exit set it has accumulated under its entry state and returns it.
C23_MemoStep ==
    /\ ((RootCallDue \/ WalkCallDue) /\ Memoized(CalledFn, CalledPs)) =>
          /\ retv' = Ret(PsmGet(fns[CalledFn].exitLockSets, CalledPs))
          /\ ctl' = IF ctl = <<>> THEN <<[k |-> "root", f |-> CalledFn]>> ELSE ctl
          /\ lockOrder' = lockOrder /\ fns' = fns /\ stack' = stack
          /\ roots' = roots /\ warnings' = warnings
          /\ InProgress(CalledFn, CalledPs) => retv'.val = NewLockSetSet
    /\ (ctl # <<>> /\ Top.k = "call" /\ retv.valid /\ retv.val = NewLockSetSet) =>
          ctl'[Len(ctl)].newps = Top.newps
    /\ WalkCompletes =>
          /\ retv' = Ret(Top.exits)
          /\ PsmGet(fns'[Top.f].exitLockSets, Top.ps) = Top.exits
          /\ lockOrder' = lockOrder
\* C23, in every state: the entry of a walk in progress is the empty
\* placeholder.
C23_Placeholder ==
    \A i \in DOMAIN ctl :
        ctl[i].k = "wf" =>
            /\ Memoized(ctl[i].f, ctl[i].ps)
            /\ PsmGet(fns[ctl[i].f].exitLockSets, ctl[i].ps) = NewLockSetSet
\* C23: walkFunction returns the memo entry of an Equal path state without
\* walking or adding an edge; the entry of a walk still in progress is empty,
\* which ends the calling path only; when a walk returns the entry is the
\* accumulated exit set.
C23_Memo == [][C23_MemoStep]_vars /\ []C23_Placeholder
\* cc calls two a second time with the path state of the first call: the
\* call has returned the two exit locksets of the memo entry.
C23_Witness ==
    /\ roots = <<"cc">> /\ ctl # <<>> /\ Top.k = "call" /\ Top.site = <<"cc", 1, 3>>
    /\ retv.valid /\ Cardinality(DOMAIN retv.val) = 2
    /\ retv.val = PsmGet(fns["two"].exitLockSets, RootPs)

\* C24: no bucket of a block-visited set ever holds more than 10 path
\* states: an entry state that is not an exact match and would be the 11th of
\* its (block, lockset bits) bucket is dropped with the warning "too many
\* states".
C24_BucketBound ==
    \A i \in DOMAIN ctl :
        ctl[i].k = "wf" =>
            \A key \in DOMAIN ctl[i].blockCache : Len(ctl[i].blockCache[key]) <= MaxSimilar

\* walkBlock has been called and is about to look its entry state up.
EnterDue == pc = "main" /\ ctl # <<>> /\ Top.k = "wb" /\ Top.phase = "enter"
EnterPs == [Top.enter EXCEPT !.mask = fns[Top.f].ifDeps[Top.b]]
\* The visited set of the walkFunction invocation holds a state Equal to ps.
Visited(ps) == \E q \in PssElems(ctl[WfIdx].blockCache) : PsEqual(q, ps)
\* C25, per step: walkBlock entered with a state Equal to a visited one
\* returns at once and changes nothing; it goes on to the instructions only
\* with a state that was not visited, which then is; a visited set loses no
\* state while its walkFunction invocation lasts, and a new invocation starts
\* with an empty one.
C25_VisitStep ==
    /\ (EnterDue /\ Visited(EnterPs) /\ ctl' # ctl) =>
          /\ ctl' = Pop(ctl)
          /\ UNCHANGED <<sp, lockOrder, roots, rootSet, rootIdx, fns, stack, warnings, retv>>
    /\ (EnterDue /\ Len(ctl') = Len(ctl) /\ ctl' # ctl) =>
          /\ ~Visited(EnterPs)
          /\ ctl'[Len(ctl)].phase = "instrs"
          /\ PssElems(ctl'[Len(ctl)].set) = {EnterPs}
          /\ EnterPs \in PssElems(ctl'[WfIdx].blockCache)
    /\ \A i \in DOMAIN ctl :
          (ctl[i].k = "wf" /\ i <= Len(ctl')) =>
              PssElems(ctl[i].blockCache) \subseteq PssElems(ctl'[i].blockCache)
    /\ \A i \in DOMAIN ctl' :
          (ctl'[i].k = "wf" /\ i > Len(ctl)) => ctl'[i].blockCache = NewPathStateSet
\* C25, in every state: the blocks whose instructions are being processed
\* were entered with different states.
C25_Once ==
    \A i, j \in DOMAIN ctl :
        (/\ i < j /\ ctl[i].k = "wb" /\ ctl[j].k = "wb"
         /\ ctl[i].phase # "enter" /\ ctl[j].phase # "enter"
         /\ \A l \in i..j : ctl[l].k = "wb") => ~PsEqual(ctl[i].enter, ctl[j].enter)
\* C25: within one walkFunction invocation a block's instructions are
\* processed at most once for each entry state, up to Equal; an entry state
\* Equal to a visited one makes walkBlock return at once with no effect; the
\* visited set is fresh for every walkFunction invocation.
C25_VisitedOnce == [][C25_VisitStep]_vars /\ []C25_Once
\* pj reaches its fourth block from both branches with states that differ
\* only in the parameter p: the second walkBlock has returned at once, the
\* visited set holds one state of that block.
C25_Witness ==
    /\ roots = <<"pj">> /\ ctl # <<>> /\ Top.k = "wb" /\ Top.b = 3
    /\ Top.phase = "succs" /\ Top.todo = <<>>
    /\ Cardinality({q \in PssElems(ctl[WfIdx].blockCache) : q.block = 4}) = 1

\* C26: after MapInPlace(f) the set holds exactly the results of f on the
\* states it held: every state of it is f of a state that was in the set, and
\* f of every state that was in the set is in it, up to Equal.
C26_MapResult ==
    tested.op = "Map" =>
        /\ \A x \in PssElems(tested.after) :
              \E q \in PssElems(tested.before) : x = ApplyFn(tested.f, q)
        /\ \A q \in PssElems(tested.before) :
              \E x \in PssElems(tested.after) : PsEqual(x, ApplyFn(tested.f, q))

\* walkBlock processes a Return instruction.
ReturnStep ==
    /\ ctl # <<>> /\ Top.k = "wb" /\ Top.phase = "instrs"
    /\ Top.pc <= Len(Prog[Top.f][Top.b].instrs)
    /\ InstrAt(Top.f, Top.b, Top.pc).op = "ret"
    /\ ctl' # ctl
\* C27, per step: a Return adds the lockset of every working path state to
\* the exit set of the function; in traceReleaseBuffer every lockset it adds
\* is the one of a working path state without the class runtime.trace.bufLock.
C27_ReturnStep ==
    ReturnStep =>
        LssSets(ctl'[WfIdx].exits) =
            LssSets(ctl[WfIdx].exits) \cup
                {IF Releases(Top.f) THEN MinusLabel(ps.lockSet, ReleasedLabel, sp)
                 ELSE ps.lockSet : ps \in PssElems(Top.set)}
C27_ReturnExits == [][C27_ReturnStep]_vars

\* C28, per step: every successor path state lined up out of a block ending
\* in an If binds the condition to true exactly when its block is Succs[0]
\* and to false exactly when it is Succs[1], whether both edges are taken or
\* a known condition pruned one.
C28_EdgeStep ==
    (SuccsStep /\ Top.ifCond # "") =>
        LET succs == Prog[Top.f][Top.b].succs
        IN  \A k \in DOMAIN ctl'[Len(ctl)].todo :
               LET ps2 == ctl'[Len(ctl)].todo[k]
               IN  /\ VsGet(ps2.vs, Top.ifCond) = "T" <=> ps2.block = succs[1]
                   /\ VsGet(ps2.vs, Top.ifCond) = "F" <=> ps2.block = succs[2]
C28_EdgeBinding == [][C28_EdgeStep]_vars

\* doCall takes the exit locksets walkFunction returned for a callee.
CallReturnStep ==
    /\ ctl # <<>> /\ Top.k = "call" /\ retv.valid
    /\ Len(ctl') = Len(ctl) /\ ~retv'.valid
\* The path states the step appended to newps.
Appended ==
    LET old == Top.newps
        new == ctl'[Len(ctl)].newps
    IN  SubSeq(new, Len(old) + 1, Len(new))
\* The successors are one per exit lockset, on the caller's block and mask,
\* with the value state vsOf gives for the caller's.
CallSuccessors(vsOf(_)) ==
    /\ Len(Appended) = Cardinality(DOMAIN retv.val)
    /\ {q.lockSet : q \in Range(Appended)} = LssSets(retv.val)
    /\ \A q \in Range(Appended) :
          /\ q.vs = vsOf(Top.cur.vs)
          /\ q.block = Top.cur.block /\ q.mask = Top.cur.mask
    /\ retv.val = NewLockSetSet => ctl'[Len(ctl)].newps = Top.newps
SameVs(vs) == vs
\* C29 as stated, per step: after a call to a callee without handler there is
\* one successor per exit lockset, with that lockset and the caller's value
\* state projected to the heap; no exit lockset, no successor.
C29_ProjectedStep == CallReturnStep => CallSuccessors(VsLimitToHeap)
C29_Projected == [][C29_ProjectedStep]_vars
\* C29, amended, per step: after a call to a callee without handler there is
\* one successor per exit lockset, with that lockset and the caller's whole
\* value state, SSA bindings included (only the entry state handed to
\* walkFunction is projected to the heap); no exit lockset, no successor.
C29_KeptStep == CallReturnStep => CallSuccessors(SameVs)
C29_Kept == [][C29_KeptStep]_vars
\* doCall has taken two exit locksets for a caller state that has a value
\* bound: both successors carry the binding.
C29_Witness ==
    /\ ctl # <<>> /\ Top.k = "call" /\ ~retv.valid /\ Top.fi = 2
    /\ Len(Top.newps) = 2 /\ Top.newps[1].lockSet # Top.newps[2].lockSet
    /\ \A q \in Range(Top.newps) : q.vs = Top.cur.vs /\ DOMAIN q.vs.vals # {}

\* The call instructions of the doCall invocations in progress, outermost
\* first: each is the instruction its walkBlock is at.
CallChain ==
    LET calls == SelectSeq([i \in 1..Len(ctl) |-> i], LAMBDA i : ctl[i].k = "call")
    IN  [j \in 1..Len(calls) |->
            <<ctl[calls[j] - 1].f, ctl[calls[j] - 1].b, ctl[calls[j] - 1].pc>>]
\* s.stack is the chain of the calls in progress; at a lock handler it ends
\* with the lock call, and it is empty when no root is being walked.
C30_Chain == stack = CallChain
\* A walkBlock or walkFunction invocation returns.
WalkReturns ==
    /\ ctl # <<>> /\ Top.k \in {"wb", "wf"}
    /\ Len(ctl') = Len(ctl) - 1
\* A root walk starts.
RootStarts == ctl = <<>> /\ ctl' # <<>>
C30_RestoreStep ==
    /\ WalkReturns => stack' = stack /\ stack = SubSeq(CallChain, 1, Len(stack))
    /\ RootStarts => stack = <<>> /\ stack' = <<>>
\* C30: s.stack is extended with the call instruction for the duration of
\* every modelled call, so at a lock handler it is the chain of call sites
\* from the root down to the lock call; every walkBlock and walkFunction
\* invocation returns with the stack it was entered with, and the stack is
\* empty whenever a root walk starts.
C30_Stack == []C30_Chain /\ [][C30_RestoreStep]_vars
\* The lock handler is about to run for the lock in f, called from d.
C30_Witness ==
    /\ ctl # <<>> /\ Top.k = "call" /\ ~retv.valid
    /\ Top.fi <= Len(Top.fnsq) /\ Top.fnsq[Top.fi] = "lock"
    /\ stack = <<<<"d", 1, 2>>, <<"f", 1, 1>>>>

\* The number of 'external function' warnings printed for f in w.
ExternalWarnings(w, f) ==
    Cardinality({i \in DOMAIN w : w[i] = Warn("external function", f)})
C31_ExternalStep ==
    ((RootCallDue \/ WalkCallDue) /\ Prog[CalledFn] = <<>>) =>
        /\ retv'.valid /\ LssSets(retv'.val) = {CalledPs.lockSet}
        /\ lockOrder' = lockOrder /\ stack' = stack
        /\ ctl # <<>> => ctl' = ctl
        /\ ExternalWarnings(warnings', CalledFn) = 1
C31_WarnedOnce ==
    \A f \in Funcs :
        ExternalWarnings(warnings, f) = IF f \in DOMAIN fns /\ Prog[f] = <<>> THEN 1 ELSE 0
\* C31: walkFunction of an external function returns exactly the incoming
\* lockset and adds no edge, and the warning 'external function' is printed
\* once per such function however often and with whatever path states it is
\* called.
C31_External == [][C31_ExternalStep]_vars /\ []C31_WarnedOnce
\* lp has called ext with the empty lockset and then with a held: the second
\* call has returned the held lockset, and one warning is there.
C31_Witness ==
    /\ roots = <<"lp">> /\ ctl # <<>> /\ Top.k = "call" /\ retv.valid
    /\ Top.site = <<"lp", 2, 1>> /\ Top.cur.lockSet.bits # {}
    /\ LssSets(retv.val) = {Top.cur.lockSet}
    /\ ExternalWarnings(warnings, "ext") = 1

\* walkBlock processes a call for which callees resolves no function: a
\* built-in without a runtime function, or a call without static callee in a
\* function without call graph node.
UnresolvedCall(f, instr) ==
    /\ instr.op = "call"
    /\ \/ instr.builtin \notin {"", "append", "close", "copy", "copy string", "delete"}
       \/ NoCallGraph(f, instr)
UnresolvedStep ==
    /\ ctl # <<>> /\ Top.k = "wb" /\ Top.phase = "instrs"
    /\ Top.pc <= Len(Prog[Top.f][Top.b].instrs)
    /\ UnresolvedCall(Top.f, InstrAt(Top.f, Top.b, Top.pc))
    /\ ctl' # ctl
C32_NoOpStep ==
    UnresolvedStep =>
        /\ ctl' = [ctl EXCEPT ![Len(ctl)].pc = @ + 1]
        /\ lockOrder' = lockOrder /\ stack' = stack /\ fns' = fns
        /\ roots' = roots /\ ~retv'.valid
        /\ warnings' =
              IF NoCallGraph(Top.f, InstrAt(Top.f, Top.b, Top.pc))
              THEN Append(warnings, Warn("no call graph for", <<Top.f, Top.b, Top.pc>>))
              ELSE warnings
\* C32: a call for which no callee can be resolved is a no-op: the working
\* path states, their locksets and the lock-order graph are unchanged, no
\* handler or walk starts, and the walk goes on with the next instruction;
\* for the missing call graph node 'no call graph for' is printed.
C32_NoOp == [][C32_NoOpStep]_vars
\* nc, holding a, is past its call without call graph node: the warning is
\* there, the path state still holds a alone and no edge was added.
C32_Witness ==
    /\ roots = <<"nc">> /\ ctl # <<>> /\ Top.k = "wb" /\ Top.pc = 4
    /\ warnings = <<Warn("no call graph for", <<"nc", 1, 3>>)>>
    /\ \A ps \in PssElems(Top.set) : Cardinality(ps.lockSet.bits) = 1
    /\ PssElems(Top.set) # {} /\ lockOrder = {}

\* The blocks from which block u is reached by a path none of whose blocks
\* (u and the start included) is block d.
RECURSIVE BackClosure(_, _, _, _)
BackClosure(f, S, d, n) ==
    IF n = 0 THEN S
    ELSE BackClosure(f, S \cup {b \in 1..NBlocks(f) :
                                  b # d /\ \E q \in S : q \in Range(Prog[f][b].succs)},
                     d, n - 1)
BackFrom(f, u, d) == IF u = d THEN {} ELSE BackClosure(f, {u}, d, NBlocks(f))
\* The blocks reached from block b by a path of zero or more edges.
RECURSIVE ForwardClosure(_, _, _)
ForwardClosure(f, S, n) ==
    IF n = 0 THEN S
    ELSE ForwardClosure(f, S \cup UNION {Range(Prog[f][b].succs) : b \in S}, n - 1)
ForwardFrom(f, b) == ForwardClosure(f, {b}, NBlocks(f))
\* The instructions the If conditions of f depend on, directly or through a
\* chain of operands, the Ifs included.
RECURSIVE DepClosure(_, _, _)
DepClosure(f, S, n) ==
    IF n = 0 THEN S
    ELSE DepClosure(f, S \cup {DefPos(f, v) :
                                 v \in {w \in UNION {Range(Operands(InstrAt(f, pos[1], pos[2]))) :
                                                       pos \in S} : IsInstrVal(f, w)}},
                    n - 1)
SinkDeps(f) == DepClosure(f, Range(IfInstrsFrom(f, 1)), Cardinality(InstrPositions(f)))
\* The blocks at whose end (phi operand of edge i: Preds[i]) or in which
\* (any other operand) the instruction at pos reads v.
UseBlocks(f, pos, v) ==
    LET instr == InstrAt(f, pos[1], pos[2])
    IN  IF instr.op = "phi"
        THEN {Preds(f, pos[1])[i] : i \in {k \in DOMAIN instr.edges : instr.edges[k] = v}}
        ELSE IF v \in Range(Operands(instr)) THEN {pos[1]} ELSE {}
\* <<b, v>>: v is defined in another block than b and is read, for an If
\* condition, at the end of a path from b that does not meet the block that
\* defines v.  from is the set of reading instructions taken into account.
LiveAt(f, from) ==
    UNION {UNION {UNION {{<<b, v>> : b \in BackFrom(f, u, DefBlock(f, v))} :
                           u \in UseBlocks(f, pos, v)} :
                    v \in {w \in Range(Operands(InstrAt(f, pos[1], pos[2]))) : IsInstrVal(f, w)}} :
             pos \in from}
\* C33: livenessFor returns ifDeps with v in ifDeps[b] for every block b and
\* every instruction v of another block that an If condition reachable from
\* b depends on along a path from b that does not pass through the block
\* defining v.
C33_LiveWhereNeeded ==
    \A f \in DOMAIN fns :
        \A d \in LiveAt(f, SinkDeps(f)) : d[2] \in fns[f].ifDeps[d[1]]

\* The phis of f that an If condition depends on.
SinkPhis(f) == {pos \in SinkDeps(f) : InstrAt(f, pos[1], pos[2]).op = "phi"}
\* C34: for a phi that a sink depends on, the operand of in-edge i is live
\* at Preds[i] and backwards from there up to its defining block, and, unless
\* another instruction reads it, at no other predecessor of the phi's block
\* that is not on a path from its defining block to Preds[i].
C34_PhiEdges ==
    \A f \in DOMAIN fns :
        \A pos \in SinkPhis(f) :
            LET phi == InstrAt(f, pos[1], pos[2])
                preds == Preds(f, pos[1])
            IN  \A i \in DOMAIN phi.edges :
                   IsInstrVal(f, phi.edges[i]) =>
                      LET v == phi.edges[i]
                          def == DefBlock(f, v)
                          elsewhere == LiveAt(f, SinkDeps(f) \ {pos})
                      IN  /\ \A b \in BackFrom(f, preds[i], def) : v \in fns[f].ifDeps[b]
                          /\ \A q \in Range(preds) \ {preds[k] : k \in {j \in DOMAIN phi.edges :
                                                                          phi.edges[j] = v}} :
                                (v \in fns[f].ifDeps[q] /\ <<q, v>> \notin elsewhere) =>
                                    /\ q \in ForwardFrom(f, def)
                                    /\ preds[i] \in ForwardFrom(f, q)

\* The stack pair with its longest common prefix taken off both.
TrimmedPair(sa, sb) ==
    LET n == LongestCommon(sa, sb)
    IN  <<SubSeq(sa, n + 1, Len(sa)), SubSeq(sb, n + 1, Len(sb))>>
\* C35: LockOrder.add trims the common outer prefix of the two stacks and
\* deduplicates on (from, to, trimmed from-stack, trimmed to-stack): whatever
\* was added, in whatever order and however often, the witnesses of a class
\* pair are the distinct trimmed stack pairs added for it, each once.
C35_Witnesses ==
    tested.op = "Order" =>
        /\ \A c \in OrderClasses :
              LET ws == Witnesses(tested.lo, c[1], c[2])
                  trimmed == {TrimmedPair(a[2][1], a[2][2]) :
                                 a \in {x \in tested.added : x[1] = c}}
              IN  /\ Range(ws) = trimmed
                  /\ Len(ws) = Cardinality(trimmed)
        /\ tested.lo.m = {<<a[1][1], a[1][2], TrimmedPair(a[2][1], a[2][2])[1],
                            TrimmedPair(a[2][1], a[2][2])[2]>> : a \in tested.added}
\* Three stack pairs that are equal after trimming and one that is not have
\* been added for 0 -> 1: two witnesses.
C35_Witness ==
    /\ tested.op = "Order" /\ tested.n = 4
    /\ Cardinality({a \in tested.added : a[1] = <<0, 1>>}) = 4
    /\ Len(Witnesses(tested.lo, 0, 1)) = 2

\* c is a simple cycle of the graph with edge set E: a non-empty sequence of
\* distinct nodes, each with an edge to the next and the last to the first.
SimpleCycle(E, c) ==
    /\ Len(c) >= 1
    /\ \A i, j \in DOMAIN c : c[i] = c[j] => i = j
    /\ \A i \in 1..(Len(c) - 1) : <<c[i], c[i + 1]>> \in E
    /\ <<c[Len(c)], c[1]>> \in E
\* c read from its k-th node on.
Rotation(c, k) == [i \in 1..Len(c) |-> c[((i + k - 2) % Len(c)) + 1]]
Rotations(c) == {Rotation(c, k) : k \in 1..Len(c)}
\* The nodes reachable from n over at least one edge of E.
RECURSIVE ReachFrom(_, _, _)
ReachFrom(E, seen, d) ==
    LET more == seen \cup {e[2] : e \in {x \in E : x[1] \in seen}}
    IN  IF d = 0 \/ more = seen THEN seen ELSE ReachFrom(E, more, d - 1)
Acyclic(E) ==
    \A n \in {e[1] : e \in E} :
        n \notin ReachFrom(E, {e[2] : e \in {x \in E : x[1] = n}}, Cardinality(E))
\* C36: on the class graph with parallel edges collapsed the cycle finder
\* reports simple cycles only, every simple cycle exactly once (one of its
\* rotations, whatever the number of witnesses), a self-loop as a cycle of
\* length 1, and nothing for an acyclic graph.
C36_SimpleCycles ==
    tested.op = "Cycles" =>
        LET E == {<<e.from, e.to>> : e \in tested.lo}
            all == UNION {[1..n -> CycleClasses] : n \in 1..Cardinality(CycleClasses)}
        IN  /\ \A c \in tested.out : SimpleCycle(E, c)
            /\ \A c \in all :
                  SimpleCycle(E, c) => Cardinality(Rotations(c) \cap tested.out) = 1
            /\ \A n \in CycleClasses : <<n, n>> \in E => <<n>> \in tested.out
            /\ Acyclic(E) => tested.out = {}
\* A triangle of which one edge has two witnesses, with no other cycle: one
\* cycle of length 3 is reported.
C36_Witness ==
    /\ tested.op = "Cycles"
    /\ {<<e.from, e.to>> : e \in tested.lo} = {<<0, 1>>, <<1, 2>>, <<2, 0>>}
    /\ Cardinality(tested.lo) = 4
    /\ tested.out = {<<0, 1, 2>>}
\* A self-loop next to a cycle of length 2.
C36_SelfLoop ==
    /\ tested.op = "Cycles"
    /\ tested.out = {<<1>>, <<0, 2>>}

\* main calls walkFunction for the next root.
RootCallStep == pc = "main" /\ ctl = <<>> /\ ctl' # <<>>
\* The i-th root has been handed to walkFunction by main's loop.
RootWalked(i) == i < rootIdx \/ (i = rootIdx /\ ctl # <<>>)
WalkedAsRoot(f) == \E i \in 1..Len(roots) : roots[i] = f /\ RootWalked(i)
\* C37, the list: no function is in roots twice, and roots and rootSet have
\* the same members.
C37_RootList ==
    /\ \A i, j \in 1..Len(roots) : roots[i] = roots[j] => i = j
    /\ rootSet = Range(roots)
\* C37, per step: roots is only appended to; main's index moves one root at
\* a time and only when a root walk has returned; the walk main starts is
\* that of roots[rootIdx], from an empty call stack, the empty lockset and
\* the initial heap state.
C37_RootStep ==
    /\ Len(roots') >= Len(roots) /\ SubSeq(roots', 1, Len(roots)) = roots
    /\ rootIdx' \in {rootIdx, rootIdx + 1}
    /\ rootIdx' = rootIdx + 1 => (ctl # <<>> /\ ctl' = <<>> /\ rootIdx <= Len(roots))
    /\ (ctl # <<>> /\ ctl' = <<>>) => rootIdx' = rootIdx + 1
    /\ RootCallStep =>
          /\ rootIdx <= Len(roots) /\ stack = <<>>
          /\ ctl'[1] = [k |-> "root", f |-> roots[rootIdx]]
          /\ IF Len(ctl') > 1
             THEN /\ ctl'[2].k = "wf" /\ ctl'[2].f = roots[rootIdx]
                  /\ ctl'[2].ps = RootPs
             ELSE /\ retv'.valid
                  /\ \/ Prog[roots[rootIdx]] = <<>>
                     \/ PsmHas(fns[roots[rootIdx]].exitLockSets, RootPs)
\* C37, eventually: whatever has been added so far, a time comes at which
\* every function that is a root by then has been handed to walkFunction by
\* main's loop (roots is only appended to and a walked root stays walked).
AllRootsWalked == \A f \in rootSet : WalkedAsRoot(f)
C37_EventuallyWalked == []<>AllRootsWalked
\* C37: roots has no duplicates and the members of rootSet, and every root,
\* initial or added by a Go instruction while a later root is walked, is
\* eventually walked as a root exactly once, in the order of addition, from
\* the empty lockset and the initial heap state.
C37_Roots == []C37_RootList /\ [][C37_RootStep]_vars /\ C37_EventuallyWalked
\* The same for the runs in which the analyzer's stack does not overflow.
C37_RootsUnlessOverflow ==
    []C37_RootList /\ [][C37_RootStep]_vars
        /\ (<>(pc = "overflow") \/ C37_EventuallyWalked)

\* The phis at the start of block b2, by index.
LeadingPhis(f, b2) ==
    {k \in 1..Len(Prog[f][b2].instrs) : \A j \in 1..k : InstrAt(f, b2, j).op = "phi"}
\* The operands a phi of b2 has for the edge from b.
EdgeOperands(f, b, b2, phi) ==
    {phi.edges[i] : i \in {j \in 1..Len(phi.edges) : Preds(f, b2)[j] = b}}
\* ps2 is ps taken over the edge from b to b2 with the phis of b2 as a
\* parallel copy: each phi has what its operand for the edge had in ps
\* (bound, or unbound for an unbound operand) and nothing else but the If
\* condition has changed.  The If condition itself, as phi or as operand, is
\* left to the edge binding.
ParallelOver(f, b, b2, ifCond, ps, ps2, bound) ==
    LET phis == {InstrAt(f, b2, k) : k \in LeadingPhis(f, b2)}
    IN  /\ ps2.lockSet = ps.lockSet /\ ps2.vs.heap = ps.vs.heap
        /\ \A v \in (DOMAIN ps.vs.vals \cup DOMAIN ps2.vs.vals)
                     \ ({phi.val : phi \in phis} \cup {ifCond}) :
              VsGet(ps2.vs, v) = VsGet(ps.vs, v)
        /\ \A phi \in {q \in phis : q.val # ifCond} :
              \A e \in EdgeOperands(f, b, b2, phi) \ {ifCond} :
                 (VsGet(ps.vs, e) # "nil") \in bound =>
                    VsGet(ps2.vs, phi.val) = VsGet(ps.vs, e)
PhiStepFor(bound) ==
    SuccsStep =>
        \A k \in DOMAIN ctl'[Len(ctl)].todo :
           LET ps2 == ctl'[Len(ctl)].todo[k]
           IN  \E ps \in PssElems(Top.set) :
                  ParallelOver(Top.f, Top.b, ps2.block, Top.ifCond, ps, ps2, bound)
\* C38: on entering successor b2 from b every phi of b2 whose operand for the
\* edge is bound is bound to the value the operand had at the end of b, all
\* phis reading the value state from before the edge, and a phi whose operand
\* for the edge is unbound is unbound.
C38_PhiStep == PhiStepFor({TRUE, FALSE})
C38_ParallelPhis == [][C38_PhiStep]_vars
\* The two halves, and the whole for the functions other than sw.
C38_BoundHalf == [][PhiStepFor({TRUE})]_vars
C38_UnboundHalf == [][PhiStepFor({FALSE})]_vars
C38_ButSw == [][roots # <<"sw">> => C38_PhiStep]_vars
\* A phi is bound over an edge from a bound operand.
C38_PhiBound ==
    /\ ctl # <<>> /\ Top.k = "wb" /\ Top.phase = "succs"
    /\ \E k \in DOMAIN Top.todo :
          \E j \in LeadingPhis(Top.f, Top.todo[k].block) :
             VsGet(Top.todo[k].vs, InstrAt(Top.f, Top.todo[k].block, j).val) # "nil"

====
